---- MODULE Spec2Model ----
(***************************************************************************)
(* Model of the wsrep-API reference node (examples/node): the Store        *)
(* (store.c), the transaction engine (trx.c) and the provider contract of  *)
(* wsrep_api.h that the engine is driven by.                               *)
(*                                                                         *)
(*   SpecStore - the public Store operations called in any order, with     *)
(*               any arguments drawn from small sets (a caller that does   *)
(*               not have to respect the provider's total order).          *)
(*   Spec      - master and slave workers running node_trx_execute and     *)
(*               node_trx_apply against a provider that orders write-sets  *)
(*               and guards the commit-order critical section.             *)
(***************************************************************************)
EXTENDS Integers, Sequences, FiniteSets, TLC

(***************************************************************************)
(* Bounds of the model                                                     *)
(***************************************************************************)
\* largest seqno the callers / the provider hand out
MaxSeqno == 2
\* operations of one local transaction (opts->operations)
MaxOps == 2
\* read-view failures counted before the model stops committing
MaxFails == 2
\* master workers asked for (opts->masters may be anything up to this)
NMasters == 2
\* slave workers asked for (opts->slaves)
NSlaves == 1
\* transient failures (out of memory, read view moved) of node_store_execute
\* counted once the provider is disconnected
MaxSoft == 1

(***************************************************************************)
(* Program constants                                                       *)
(***************************************************************************)
WSREP_SEQNO_UNDEFINED == -1
WSREP_UUID_UNDEFINED == 0
\* opts->records: the number of records of the Store
OPT_RECORDS == 2
\* opts->ws_size as node_options_read leaves it when it is not given
OPT_WS_SIZE == 1024
\* sizeof(wsrep_uuid_t), sizeof(version) + sizeof(value), and the two
\* serialized sizes of store.c
SIZEOF_MEMBER == 16
WSREP_UUID_STR_LEN == 36
WSREP_GTID_STR_LEN == 57
STORE_RECORD_SIZE == 12
STORE_OP_SIZE == 40
STORE_GTID_SIZE == 24

\* epoch uuids of the model: 0 is the all-zero uuid, 1 and 2 are two clusters
Uuids == {1, 2}
WSREP_GTID_UNDEFINED == [uuid |-> WSREP_UUID_UNDEFINED, seqno |-> WSREP_SEQNO_UNDEFINED]

NoTrx == [null |-> TRUE]
NoSnapshot == <<>>

(***************************************************************************)
(* State                                                                   *)
(***************************************************************************)
VARIABLES
    NDEBUG,     \* the build: TRUE when assert() is compiled out
    store,      \* struct node_store
    fatal,      \* "no", or why the process was aborted
    ws_handle,  \* the write-set handle (wsrep_ws_handle_t) of the local transaction
    ev,         \* SpecStore: the Store operation performed by the last step
    provider,   \* the provider: total order and commit-order monitor
    master,     \* the master worker inside / after node_trx_execute
    slave,      \* the slave worker inside / after node_trx_apply
    sst,        \* state transfer: the joining node's Store and the donor's
                \* Store as it was when the pinned snapshot was acquired
    node,       \* the process: main(), the SYNCED latch, the provider
                \* handle and the worker threads
    gtid_mtx,   \* store->gtid_mtx: its owner, and where each thread that
                \* uses the Store is
    cluster     \* two nodes of one cluster: the write-sets and views in
                \* their total order, and the second node

nodeVars == <<provider, master, slave>>
vars == <<NDEBUG, store, fatal, ws_handle, ev, provider, master, slave, sst,
          node, gtid_mtx, cluster>>

(***************************************************************************)
(* struct record, struct store_trx_op, struct store_trx_ctx                *)
(***************************************************************************)
record_t(version, value) == [version |-> version, value |-> value]

store_record_equal(lhs, rhs) == (lhs.version = rhs.version) /\ (lhs.value = rhs.value)

\* store_trx_add_op: one more, zeroed, operation at the end of trx->ops
store_trx_add_op(trx, op) == [trx EXCEPT !.ops = Append(@, op)]

(***************************************************************************)
(* node_store_open: records {WSREP_SEQNO_UNDEFINED, i}, everything else    *)
(* zeroed by calloc(), the per-operation size max(ws_size/operations,      *)
(* STORE_OP_SIZE)                                                          *)
(***************************************************************************)
node_store_open(opt_records, opt_ws_size, opt_operations) ==
    LET desired_size == opt_ws_size \div opt_operations
    IN  [gtid              |-> WSREP_GTID_UNDEFINED,
         snapshot          |-> NoSnapshot,
         members           |-> <<>>,
         records           |-> [i \in 0..(opt_records - 1) |->
                                    record_t(WSREP_SEQNO_UNDEFINED, i)],
         ws_size           |-> IF desired_size > STORE_OP_SIZE
                               THEN desired_size ELSE STORE_OP_SIZE,
         read_view_fails   |-> 0,
         members_num       |-> 0,
         records_num       |-> opt_records,
         read_view_support |-> FALSE]

\* the outcome of a Store operation: the Store it leaves and, when the
\* operation ended in abort(), why
Done(st) == [store |-> st, fatal |-> "no"]
Abort(st, why) == [store |-> st, fatal |-> why]

\* store_update_gtid that leaves the seqno where it was
store_update_gtid_keep(st, ws_gtid) ==
    IF st.gtid.seqno + 1 # ws_gtid.seqno
    THEN Abort(st, "Out of order commit")
    ELSE Done(st)

\* store_update_gtid without the out-of-order check
store_update_gtid_unchecked(st, ws_gtid) ==
    Done([st EXCEPT !.gtid.seqno = @ + 1])

(***************************************************************************)
(* store_update_gtid: assert on the uuid (debug builds only), increment,   *)
(* abort() when the incremented seqno is not the write-set's               *)
(***************************************************************************)
store_update_gtid(st, ws_gtid) ==
    IF ~NDEBUG /\ st.gtid.uuid # ws_gtid.uuid
    THEN Abort(st, "assert uuid")
    ELSE LET inc == [st EXCEPT !.gtid.seqno = @ + 1]
         IN  IF inc.gtid.seqno # ws_gtid.seqno
             THEN Abort(inc, "Out of order commit")
             ELSE Done(inc)

\* node_store_update_gtid: store_update_gtid under the Store lock
node_store_update_gtid(st, ws_gtid) == store_update_gtid(st, ws_gtid)

(***************************************************************************)
(* node_store_commit                                                       *)
(***************************************************************************)
\* check_read_view_snapshot: the Store verifies the read view unless the
\* build is NDEBUG and the cluster supports read views
check_read_view_snapshot(st) == IF NDEBUG THEN ~st.read_view_support ELSE TRUE

\* a first loop that finds nothing
commit_check_blind(st, trx, i) == "ok"

\* the first loop of node_store_commit from operation i on: "ok" when every
\* operation still sees the records it read, "fail" on the first operation
\* that does not (read_view_fails++, goto error), or the abort reason
RECURSIVE commit_check(_, _, _)
commit_check(st, trx, i) ==
    IF i > Len(trx.ops) THEN "ok"
    ELSE LET op   == trx.ops[i]
             from == st.records[op.idx_from]
             to   == st.records[op.idx_to]
         IN  IF ~NDEBUG /\ (from.version > trx.rv_gtid.seqno \/
                            to.version > trx.rv_gtid.seqno)
             THEN "assert read view"
             ELSE IF ~store_record_equal(op.rec_from, from) \/
                     ~store_record_equal(op.rec_to, to)
             THEN IF ~NDEBUG /\ (op.rec_from.version > from.version \/
                                 op.rec_to.version > to.version \/
                                 (op.rec_from.version = from.version /\
                                  op.rec_from.value # from.value) \/
                                 (op.rec_to.version = to.version /\
                                  op.rec_to.value # to.value))
                  THEN "assert record"
                  ELSE IF st.read_view_support THEN "abort read view"
                  ELSE "fail"
             ELSE commit_check(st, trx, i + 1)

\* a second loop that stamps the records with the seqno after the write-set's
RECURSIVE commit_write_ahead(_, _, _, _)
commit_write_ahead(records, trx, ws_gtid, i) ==
    IF i > Len(trx.ops) THEN records
    ELSE commit_write_ahead([records EXCEPT ![trx.ops[i].idx_to] =
                                 record_t(ws_gtid.seqno + 1, trx.ops[i].new_value)],
                            trx, ws_gtid, i + 1)

\* a second loop that stops after the first operation
commit_write_first(records, trx, ws_gtid, i) ==
    IF i > Len(trx.ops) THEN records
    ELSE [records EXCEPT ![trx.ops[i].idx_to] =
              record_t(ws_gtid.seqno, trx.ops[i].new_value)]

\* the second loop of node_store_commit from operation i on
RECURSIVE commit_write(_, _, _, _)
commit_write(records, trx, ws_gtid, i) ==
    IF i > Len(trx.ops) THEN records
    ELSE LET op == trx.ops[i]
             new_record == record_t(ws_gtid.seqno, op.new_value)
         IN  commit_write([records EXCEPT ![op.idx_to] = new_record],
                          trx, ws_gtid, i + 1)

\* a node_store_commit that verifies the read view before it advances the
\* GTID, and leaves the GTID where it was when the verification fails
node_store_commit_verify_first(st, trx, ws_gtid) ==
    LET res == IF check_read_view_snapshot(st) THEN commit_check(st, trx, 1) ELSE "ok"
        upd == store_update_gtid(st, ws_gtid)
    IN  IF res = "fail" THEN Done([st EXCEPT !.read_view_fails = @ + 1])
        ELSE IF upd.fatal # "no" THEN upd
        ELSE IF res = "ok"
        THEN Done([upd.store EXCEPT !.records = commit_write(@, trx, ws_gtid, 1)])
        ELSE Abort(upd.store, res)

\* a node_store_commit that drops the pinned snapshot when it writes, as if
\* the snapshot were a view of the records that a write invalidates
node_store_commit_unpin(st, trx, ws_gtid) ==
    LET upd == store_update_gtid(st, ws_gtid)
        res == IF check_read_view_snapshot(st) THEN commit_check(upd.store, trx, 1)
               ELSE "ok"
    IN  IF upd.fatal # "no" THEN upd
        ELSE IF res = "ok"
        THEN Done([upd.store EXCEPT !.records = commit_write(@, trx, ws_gtid, 1),
                                    !.snapshot = NoSnapshot])
        ELSE IF res = "fail"
        THEN Done([upd.store EXCEPT !.read_view_fails = @ + 1])
        ELSE Abort(upd.store, res)

node_store_commit(st, trx, ws_gtid) ==
    LET check == check_read_view_snapshot(st)
        upd   == store_update_gtid(st, ws_gtid)
        inc   == upd.store
        res   == IF check THEN commit_check(inc, trx, 1) ELSE "ok"
    IN  IF upd.fatal # "no" THEN upd
        ELSE IF res = "ok"
        THEN Done([inc EXCEPT !.records = commit_write(@, trx, ws_gtid, 1)])
        ELSE IF res = "fail"
        THEN Done([inc EXCEPT !.read_view_fails = @ + 1])
        ELSE Abort(inc, res)

(***************************************************************************)
(* Serialized forms.  A buffer is a sequence of cells; a cell is a value   *)
(* copied by memcpy() together with the number of bytes it occupies.       *)
(***************************************************************************)
cell(len, val) == [len |-> len, val |-> val]

RECURSIVE BufLenTo(_, _)
BufLenTo(buf, n) == IF n = 0 THEN 0 ELSE buf[n].len + BufLenTo(buf, n - 1)
\* the number of bytes of buf
BufLen(buf) == BufLenTo(buf, Len(buf))

\* the index of the first cell of buf at or behind byte offset off, from cell i
RECURSIVE BufIndex(_, _, _)
BufIndex(buf, off, i) ==
    IF off <= 0 \/ i > Len(buf) THEN i ELSE BufIndex(buf, off - buf[i].len, i + 1)
\* the cells of buf from byte offset off on (off lies on a cell boundary, or
\* at or behind the end of the buffer)
BufFrom(buf, off) == SubSeq(buf, BufIndex(buf, off, 1), Len(buf))

store_serialize_uint32(from) == <<cell(4, from)>>
store_serialize_int64(from) == <<cell(8, from)>>

\* store_record_set: version then value, no padding
store_record_set(record) == <<cell(8, record.version), cell(4, record.value)>>
\* store_record_get: the record at the head of buf
store_record_get(buf) == record_t(buf[1].val, buf[2].val)

store_serialize_op(op) ==
    store_record_set(op.rec_from) \o store_record_set(op.rec_to) \o
    store_serialize_uint32(op.idx_from) \o store_serialize_uint32(op.idx_to) \o
    store_serialize_uint32(op.new_value) \o store_serialize_uint32(op.size)

\* a store_deserialize_op that reads the two indices in the other order
store_deserialize_op_swapped(buf) ==
    [rec_from  |-> store_record_get(buf),
     rec_to    |-> store_record_get(SubSeq(buf, 3, 4)),
     idx_from  |-> buf[6].val,
     idx_to    |-> buf[5].val,
     new_value |-> buf[7].val,
     size      |-> buf[8].val]

store_deserialize_op(buf) ==
    [rec_from  |-> store_record_get(buf),
     rec_to    |-> store_record_get(SubSeq(buf, 3, 4)),
     idx_from  |-> buf[5].val,
     idx_to    |-> buf[6].val,
     new_value |-> buf[7].val,
     size      |-> buf[8].val]

store_serialize_gtid(gtid) == <<cell(16, gtid.uuid)>> \o store_serialize_int64(gtid.seqno)
store_deserialize_gtid(buf) == [uuid |-> buf[1].val, seqno |-> buf[2].val]

\* the bytes of the write-set buffer (trx + 1) behind a serialized operation:
\* calloc() zeroed them and nothing writes there
ws_padding(st) ==
    IF st.ws_size > STORE_OP_SIZE THEN <<cell(st.ws_size - STORE_OP_SIZE, 0)>> ELSE <<>>

(***************************************************************************)
(* node_store_execute.  idx_from and idx_to are the two rand() results,    *)
(* alloc is FALSE when calloc()/realloc() returns NULL, prov is the status *)
(* of the first provider call that fails (WSREP_OK when none does).        *)
(* hnd is the write-set handle: trx is the context behind trx_id, ws the   *)
(* data fragments appended to the provider so far.                         *)
(***************************************************************************)
NewTrx == [rv_gtid |-> [uuid |-> 0, seqno |-> 0], ops |-> <<>>]
NewHandle == [trx |-> NoTrx, ws |-> <<>>]

node_store_execute(st, hnd, idx_from, idx_to, alloc, prov) ==
    IF ~alloc
    THEN [hnd |-> hnd, ret |-> "ENOMEM"]
    ELSE
    LET trx0 == IF hnd.trx = NoTrx THEN NewTrx ELSE hnd.trx
        first == Len(trx0.ops) = 0
        rv_gtid == IF first THEN st.gtid ELSE trx0.rv_gtid
        rec_from == st.records[idx_from]
        rec_to == st.records[idx_to]
        op == [rec_from  |-> rec_from,
               rec_to    |-> rec_to,
               idx_from  |-> idx_from,
               idx_to    |-> idx_to,
               new_value |-> rec_from.value + 1,
               size      |-> st.ws_size]
        trx == store_trx_add_op([trx0 EXCEPT !.rv_gtid = rv_gtid], op)
        frag == (IF first THEN store_serialize_gtid(rv_gtid) ELSE <<>>) \o
                store_serialize_op(op) \o ws_padding(st)
    IN  IF rec_from.version > rv_gtid.seqno \/ rec_to.version > rv_gtid.seqno
        THEN \* read view changed: store_trx_free(trx), WSREP_TRX_FAIL
             [hnd |-> [hnd EXCEPT !.trx = NoTrx], ret |-> "WSREP_TRX_FAIL"]
        ELSE IF prov # "WSREP_OK"
        THEN [hnd |-> [hnd EXCEPT !.trx = NoTrx], ret |-> prov]
        ELSE [hnd |-> [trx |-> trx, ws |-> hnd.ws \o frag], ret |-> "WSREP_OK"]

(***************************************************************************)
(* node_store_apply: the read-view GTID, then operations as long as at     *)
(* least STORE_OP_SIZE bytes are left, each taking op->size bytes          *)
(***************************************************************************)
RECURSIVE apply_ops(_, _, _)
apply_ops(trx, buf, left) ==
    IF left >= STORE_OP_SIZE /\ Len(buf) >= 8
    THEN LET op == store_deserialize_op(buf)
         IN  apply_ops(store_trx_add_op(trx, op), BufFrom(buf, op.size), left - op.size)
    ELSE [trx |-> trx, left |-> left]

\* a node_store_apply that reads the two records of each operation from the
\* Store where it is called
node_store_apply_reread(st, ws, alloc) ==
    LET len == BufLen(ws)
        gt  == len >= STORE_GTID_SIZE
        trx == IF gt THEN [NewTrx EXCEPT !.rv_gtid = st.gtid] ELSE NewTrx
        res == apply_ops(trx, IF gt THEN BufFrom(ws, STORE_GTID_SIZE) ELSE ws,
                         IF gt THEN len - STORE_GTID_SIZE ELSE len)
        ops == [k \in 1..Len(res.trx.ops) |->
                   [res.trx.ops[k] EXCEPT
                       !.rec_from = st.records[res.trx.ops[k].idx_from],
                       !.rec_to = st.records[res.trx.ops[k].idx_to]]]
    IN  IF ~alloc
        THEN [trx |-> NoTrx, fatal |-> "no", ret |-> "ENOMEM"]
        ELSE IF res.left # 0
        THEN [trx |-> NoTrx, fatal |-> "Failed to process writeset", ret |-> "abort"]
        ELSE [trx |-> [res.trx EXCEPT !.ops = ops], fatal |-> "no", ret |-> "0"]

\* alloc is FALSE when the calloc() of the context returns NULL
node_store_apply(st, ws, alloc) ==
    LET len == BufLen(ws)
        gt  == len >= STORE_GTID_SIZE
        trx == IF gt THEN [NewTrx EXCEPT !.rv_gtid = store_deserialize_gtid(ws)]
               ELSE NewTrx
        res == apply_ops(trx, IF gt THEN BufFrom(ws, STORE_GTID_SIZE) ELSE ws,
                         IF gt THEN len - STORE_GTID_SIZE ELSE len)
    IN  IF ~alloc
        THEN [trx |-> NoTrx, fatal |-> "no", ret |-> "ENOMEM"]
        ELSE IF ~NDEBUG /\ len < STORE_GTID_SIZE + STORE_OP_SIZE
        THEN [trx |-> NoTrx, fatal |-> "assert writeset", ret |-> "abort"]
        ELSE IF res.left # 0
        THEN [trx |-> NoTrx, fatal |-> "Failed to process writeset", ret |-> "abort"]
        ELSE [trx |-> res.trx, fatal |-> "no", ret |-> "0"]

(***************************************************************************)
(* node_store_update_membership                                            *)
(***************************************************************************)
\* an update_membership that installs the members and forgets the GTID
node_store_update_membership_keep_gtid(st, v) ==
    IF ~((v.state_id.seqno = st.gtid.seqno + 1 /\ v.state_id.uuid = st.gtid.uuid) \/
         st.gtid = WSREP_GTID_UNDEFINED)
    THEN Abort(st, "incompatible view")
    ELSE Done([st EXCEPT !.members = v.members,
                         !.members_num = Len(v.members),
                         !.read_view_support = v.cap_snapshot])

\* an update_membership that takes any view of the Store's epoch
node_store_update_membership_any_seqno(st, v) ==
    IF ~(v.state_id.uuid = st.gtid.uuid \/ st.gtid = WSREP_GTID_UNDEFINED)
    THEN Abort(st, "incompatible view")
    ELSE Done([st EXCEPT !.members = v.members,
                         !.members_num = Len(v.members),
                         !.gtid = v.state_id,
                         !.read_view_support = v.cap_snapshot])

node_store_update_membership(st, v) ==
    LET continuation == v.state_id.seqno = st.gtid.seqno + 1 /\
                        v.state_id.uuid = st.gtid.uuid
        initialization == st.gtid.seqno = WSREP_SEQNO_UNDEFINED /\
                          st.gtid.uuid = WSREP_UUID_UNDEFINED
    IN  IF ~(continuation \/ initialization)
        THEN Abort(st, "incompatible view")
        ELSE Done([st EXCEPT !.members = v.members,
                             !.members_num = Len(v.members),
                             !.gtid = v.state_id,
                             !.read_view_support = v.cap_snapshot])

(***************************************************************************)
(* wsrep_gtid_print / wsrep_gtid_scan (wsrep_gtid.c): the GTID as the text *)
(* "<uuid>:<seqno>", the uuid as 36 characters (hexadecimal digits in      *)
(* groups of 8-4-4-4-12), the seqno in decimal.  The uuid text is one cell, *)
(* every other character a cell of its own.                                *)
(***************************************************************************)
Digits == <<"0", "1", "2", "3", "4", "5", "6", "7", "8", "9">>
chr(c) == cell(1, c)
NUL == chr("NUL")

\* the text of a uuid: WSREP_UUID_STR_LEN characters, kept as one cell
wsrep_uuid_print(u) == <<cell(WSREP_UUID_STR_LEN, u)>>

IsDigit(c) == c.len = 1 /\ \E d \in 1..10 : Digits[d] = c.val
DigitVal(c) == (CHOOSE d \in 1..10 : Digits[d] = c.val) - 1

\* the uuid a text starts with, or -1
wsrep_uuid_scan(str) ==
    IF str # <<>> /\ Head(str).len = WSREP_UUID_STR_LEN THEN Head(str).val ELSE -1

RECURSIVE print_digits(_)
print_digits(n) ==
    IF n < 10 THEN <<chr(Digits[n + 1])>>
    ELSE print_digits(n \div 10) \o <<chr(Digits[(n % 10) + 1])>>

print_seqno(n) == IF n < 0 THEN <<chr("-")>> \o print_digits(-n) ELSE print_digits(n)

\* the leading decimal digits of a text: their number and their value
RECURSIVE scan_digits(_, _, _)
scan_digits(str, n, val) ==
    IF str # <<>> /\ IsDigit(Head(str))
    THEN scan_digits(Tail(str), n + 1, val * 10 + DigitVal(Head(str)))
    ELSE [n |-> n, val |-> val]

wsrep_gtid_print(gtid) ==
    wsrep_uuid_print(gtid.uuid) \o <<chr(":")>> \o print_seqno(gtid.seqno)

\* [ret |-> characters read or -1, gtid |-> the GTID read]
wsrep_gtid_scan(str) ==
    LET uuid == wsrep_uuid_scan(str)
        rest == SubSeq(str, 3, Len(str))
        neg  == rest # <<>> /\ Head(rest) = chr("-")
        digs == scan_digits(IF neg THEN Tail(rest) ELSE rest, 0, 0)
    IN  IF uuid >= 0 /\ Len(str) > 1 /\ str[2] = chr(":") /\ digs.n > 0
        THEN [ret  |-> WSREP_UUID_STR_LEN + 1 + (IF neg THEN 1 ELSE 0) + digs.n,
              gtid |-> [uuid |-> uuid, seqno |-> IF neg THEN -digs.val ELSE digs.val]]
        ELSE [ret |-> -1, gtid |-> WSREP_GTID_UNDEFINED]

(***************************************************************************)
(* node_store_acquire_state: the snapshot GTID text, \0, members_num,      *)
(* members, read_view_support, records_num, records                        *)
(***************************************************************************)
RECURSIVE serialize_members(_)
serialize_members(members) ==
    IF members = <<>> THEN <<>>
    ELSE <<cell(SIZEOF_MEMBER, Head(members))>> \o serialize_members(Tail(members))

RECURSIVE serialize_records(_, _, _)
serialize_records(records, i, num) ==
    IF i >= num THEN <<>>
    ELSE store_record_set(records[i]) \o serialize_records(records, i + 1, num)

\* a snapshot that always records "no read-view support"
snapshot_of_flagless(st) ==
    wsrep_gtid_print(st.gtid) \o <<NUL>> \o
    store_serialize_uint32(st.members_num) \o serialize_members(st.members) \o
    <<cell(1, 0)>> \o
    store_serialize_uint32(st.records_num) \o
    serialize_records(st.records, 0, st.records_num)

snapshot_of(st) ==
    wsrep_gtid_print(st.gtid) \o <<NUL>> \o
    store_serialize_uint32(st.members_num) \o serialize_members(st.members) \o
    <<cell(1, IF st.read_view_support THEN 1 ELSE 0)>> \o
    store_serialize_uint32(st.records_num) \o
    serialize_records(st.records, 0, st.records_num)

\* an acquire that takes a new snapshot over the one that is pinned
node_store_acquire_state_again(st, alloc) ==
    IF ~alloc THEN [store |-> st, fatal |-> "no", ret |-> "ENOMEM"]
    ELSE [store |-> [st EXCEPT !.snapshot = snapshot_of(st)], fatal |-> "no", ret |-> "0"]

\* alloc is FALSE when malloc() returns NULL
node_store_acquire_state(st, alloc) ==
    IF st.snapshot # NoSnapshot
    THEN IF ~NDEBUG THEN [store |-> st, fatal |-> "assert snapshot", ret |-> "abort"]
         ELSE [store |-> st, fatal |-> "no", ret |-> "EAGAIN"]
    ELSE IF ~alloc THEN [store |-> st, fatal |-> "no", ret |-> "ENOMEM"]
    ELSE [store |-> [st EXCEPT !.snapshot = snapshot_of(st)], fatal |-> "no", ret |-> "0"]

\* node_store_release_state
node_store_release_state(st) ==
    IF ~NDEBUG /\ st.snapshot = NoSnapshot
    THEN Abort(st, "assert snapshot")
    ELSE Done([st EXCEPT !.snapshot = NoSnapshot])

(***************************************************************************)
(* node_store_init_state.  junk is what a read behind the end of the       *)
(* buffer yields.                                                          *)
(***************************************************************************)
\* the value of the cell at the head of buf, junk when buf has ended
peek(buf, junk) == IF buf = <<>> THEN junk ELSE Head(buf).val

RECURSIVE deserialize_members(_, _)
deserialize_members(buf, num) ==
    IF num = 0 THEN <<>>
    ELSE <<Head(buf).val>> \o deserialize_members(Tail(buf), num - 1)

\* store_new_members: [ret |-> -1 or the bytes consumed, members]
store_new_members(buf, junk) ==
    LET num   == peek(buf, junk)
        ptr   == BufFrom(buf, 4)
        msize == SIZEOF_MEMBER * num
    IN  IF num < 2 THEN [ret |-> -1, members |-> <<>>]
        ELSE IF BufLen(ptr) < msize THEN [ret |-> -1, members |-> <<>>]
        ELSE [ret |-> 4 + msize, members |-> deserialize_members(ptr, num)]

\* store_new_records: [ret |-> -1 or the bytes consumed, num, records]
store_new_records(buf, junk) ==
    LET num   == peek(buf, junk)
        ptr   == BufFrom(buf, 4)
        rsize == STORE_RECORD_SIZE * num
    IN  IF num = 0 THEN [ret |-> 4, num |-> 0, records |-> <<>>]
        ELSE IF BufLen(ptr) < rsize THEN [ret |-> -1, num |-> 0, records |-> <<>>]
        ELSE [ret |-> 4 + rsize, num |-> num,
              records |-> [i \in 0..(num - 1) |->
                              store_record_get(SubSeq(ptr, 2 * i + 1, 2 * i + 2))]]

\* an init_state that installs the members as soon as they are parsed,
\* before the records are parsed and the GTID is checked
node_store_init_state_eager(st, state, junk) ==
    LET scan == wsrep_gtid_scan(state)
        mptr == BufFrom(state, scan.ret + 1)
        memb == store_new_members(mptr, junk)
        vptr == BufFrom(mptr, memb.ret)
        rec  == store_new_records(BufFrom(vptr, 1), junk)
        st1  == [st EXCEPT !.members_num = Len(memb.members),
                           !.members = memb.members]
    IN  IF BufLen(state) <= SIZEOF_MEMBER * 2 + WSREP_UUID_STR_LEN + 1 + 1 + 1
        THEN [store |-> st, ret |-> -1]
        ELSE IF scan.ret < 0 \/ BufLen(state) - (scan.ret + 1) < 4 \/ memb.ret < 0
        THEN [store |-> st, ret |-> -1]
        ELSE IF rec.ret < 0 \/
                (scan.gtid.uuid = st.gtid.uuid /\ scan.gtid.seqno < st.gtid.seqno)
        THEN [store |-> st1, ret |-> -1]
        ELSE [store |-> [st1 EXCEPT !.records_num = rec.num,
                                    !.records = rec.records,
                                    !.gtid = scan.gtid,
                                    !.read_view_support = peek(vptr, junk) # 0],
              ret |-> 0]

node_store_init_state(st, state, junk) ==
    LET state_len == BufLen(state)
        scan      == wsrep_gtid_scan(state)
        ret       == scan.ret + 1
        mptr      == BufFrom(state, ret)
        memb      == store_new_members(mptr, junk)
        vptr      == BufFrom(mptr, memb.ret)
        read_view_support == peek(vptr, junk) # 0
        rptr      == BufFrom(vptr, 1)
        rec       == store_new_records(rptr, junk)
    IN  IF state_len <= SIZEOF_MEMBER * 2 + WSREP_UUID_STR_LEN + 1 + 1 + 1
        THEN [store |-> st, ret |-> -1]
        ELSE IF scan.ret < 0 THEN [store |-> st, ret |-> -1]
        ELSE IF state_len - ret < 4 THEN [store |-> st, ret |-> -1]
        ELSE IF memb.ret < 0 THEN [store |-> st, ret |-> -1]
        ELSE IF rec.ret < 0 THEN [store |-> st, ret |-> -1]
        ELSE IF scan.gtid.uuid = st.gtid.uuid /\ scan.gtid.seqno < st.gtid.seqno
        THEN [store |-> st, ret |-> -1]
        ELSE [store |-> [st EXCEPT !.members_num = Len(memb.members),
                                   !.members = memb.members,
                                   !.records_num = rec.num,
                                   !.records = rec.records,
                                   !.gtid = scan.gtid,
                                   !.read_view_support = read_view_support],
              ret |-> 0]

(***************************************************************************)
(* SpecStore: the Store operations, any caller, one local transaction at   *)
(* a time.                                                                 *)
(***************************************************************************)
Gtids == [uuid : Uuids, seqno : 1..MaxSeqno]
\* a one-node cluster whose provider lacks WSREP_CAP_SNAPSHOT, or a two-node
\* cluster whose provider has it
Views == {[state_id |-> g, members |-> m.members, cap_snapshot |-> m.cap] :
             g \in [uuid : {1}, seqno : 0..MaxSeqno],
             m \in {[members |-> <<1>>, cap |-> FALSE],
                    [members |-> <<1, 2>>, cap |-> TRUE]}}
Indices == 0..(OPT_RECORDS - 1)
Allocs == BOOLEAN
ProvRets == {"WSREP_OK", "WSREP_CONN_FAIL"}

\* a donor's Store: another node of the cluster after its first view
\* (members 1 and 2) and after one committed transaction
Donor1 == [node_store_open(OPT_RECORDS, 0, MaxOps) EXCEPT
              !.gtid = [uuid |-> 1, seqno |-> 0],
              !.members = <<1, 2>>, !.members_num = 2]
Donor2 == [Donor1 EXCEPT !.gtid.seqno = 1, !.records[1] = record_t(1, 1)]
Donor3 == [Donor1 EXCEPT !.gtid = [uuid |-> 2, seqno |-> 2],
                         !.records[0] = record_t(2, 2),
                         !.read_view_support = TRUE]
Donors == {Donor2, Donor3}
\* what arrives at a joiner: a donor's snapshot, or the first bytes of one
Snapshots ==
    UNION {LET b == snapshot_of(d)
           IN  {b, SubSeq(b, 1, Len(b) - 1), SubSeq(b, 1, 1)}
           : d \in Donors}
Junk == {0, 2}

Ev(op, gtid, res) == [op |-> op, res |-> res]
NoEv == Ev("open", WSREP_GTID_UNDEFINED, "ok")
Res(r) == IF r.fatal = "no" THEN "ok" ELSE "fatal"

\* the workers and the provider before the node runs
IdleProv == [last_ordered |-> 0, last_left |-> 0, failed |-> FALSE]
IdleWorker ==
    [pc |-> "idle", cert |-> "WSREP_OK", ret |-> "WSREP_OK",
     meta |-> WSREP_GTID_UNDEFINED, ops_left |-> 0, app_err |-> FALSE,
     trx |-> NoTrx, exec |-> "none",
     enter_calls |-> <<>>, entered |-> <<>>, left |-> <<>>,
     rollbacks |-> 0, adv |-> 0, writes |-> 0, fails |-> 0, memb |-> 0]

\* no state transfer yet: the joining node has just opened its Store
\* and neither SST callback has been called (jpc, dpc: where the joiner and
\* the donor thread are; jerr, derr, dlen: their err and state_len; jcalls,
\* dcalls: the sst_received and sst_sent calls since the last callback; dacq,
\* drel: the successful node_store_acquire_state calls and the
\* node_store_release_state calls of the donor thread; jpath, jlen, jgtid:
\* the path the joiner thread took, its state_len (-1: not received) and
\* state_gtid; received, sent: the arguments of the last sst_received and
\* sst_sent call; dbypass: the donate callback's bypass; dio: how the sends
\* of the donor thread went; dwire: what it has passed to
\* node_socket_send_bytes; dstate: the state_id of the donate callback)
NoCall == [gtid |-> WSREP_GTID_UNDEFINED, rcode |-> "none"]
\* no SST callback is in sst_create_and_sync (role, bypass: the callback and
\* its bypass argument; ppc, cpc: where the callback and its thread are; mtx:
\* who holds the mutex of the role; signalled: pthread_cond_signal found the
\* callback waiting; ctx: whether the callback's stack context still exists;
\* copied: what the thread's copy of it was read from; acquired:
\* node_store_acquire_state has been called; state: the GTID of the Store
\* when the callback was called)
NoSync ==
    [role |-> "none", bypass |-> FALSE, ppc |-> "idle", cpc |-> "idle",
     mtx |-> "none", signalled |-> FALSE, ctx |-> "gone", copied |-> "none",
     acquired |-> FALSE, state |-> WSREP_GTID_UNDEFINED]
NoSst ==
    [joiner |-> node_store_open(OPT_RECORDS, 0, MaxOps), of |-> NoSnapshot,
     jpc |-> "idle", jerr |-> "-1", jcalls |-> 0,
     dpc |-> "idle", derr |-> "0", dlen |-> 0, dcalls |-> 0,
     dacq |-> 0, drel |-> 0,
     jpath |-> "none", jlen |-> -1, jgtid |-> WSREP_GTID_UNDEFINED,
     received |-> NoCall, sent |-> NoCall,
     dbypass |-> FALSE, dio |-> "none", dwire |-> <<>>,
     dstate |-> WSREP_GTID_UNDEFINED,
     sync |-> NoSync]

\* two nodes that have not ordered anything: the second node has just
\* opened its Store with the default write-set size (log: the write-sets
\* and views the provider has ordered, each with its GTID; pos: how many of
\* them a node has processed; peer, peer_fatal: struct node_store and the
\* abort of the second node)
Nodes == {"local", "peer"}
NoCluster ==
    [log |-> <<>>, pos |-> [n \in Nodes |-> 0],
     peer |-> node_store_open(OPT_RECORDS, OPT_WS_SIZE, MaxOps),
     peer_fatal |-> "no"]

\* the threads that use the Store, and nobody owns store->gtid_mtx: each
\* thread is at the head of its routine (owner: the thread that has locked
\* the mutex; at: the statement each thread executes next)
StoreThreads == {"master", "slave", "joiner", "donor"}
Unlocked ==
    [owner |-> "none",
     at |-> [t \in StoreThreads |->
                CASE t = "master" -> "node_trx_execute"
                  [] t = "slave" -> "recv"
                  [] t = "joiner" -> "node_socket_accept"
                  [] t = "donor" -> "sst_donor_thread"]]

\* the process before main() has done anything (pc: the call main() is at;
\* opts_masters: opts->masters; store, conn: what became of node.store and of
\* the provider instance; synced: s_wsrep.synced.value; ever1: the latch has
\* been 1; closed_status: what the write-set calls of the disconnected
\* provider return; soft: transient failures since the disconnect; masters,
\* slaves: the threads of the two pools, for a master its position, the last
\* return of node_trx_execute and the latch value its last
\* node_wsrep_wait_synced read; step: the function that ran last)
NoThread == [pc |-> "none", ret |-> "none", seen |-> 0]
NoNode ==
    [pc |-> "node_options_read", opts_masters |-> 0,
     store |-> "unopened", conn |-> "none",
     synced |-> 0, ever1 |-> FALSE,
     closed_status |-> "none", soft |-> 0,
     masters |-> [w \in 1..NMasters |-> NoThread],
     slaves |-> [w \in 1..NSlaves |-> "none"],
     step |-> "none"]

InitStore ==
    /\ NDEBUG \in BOOLEAN
    /\ store = node_store_open(OPT_RECORDS, 0, MaxOps)
    /\ fatal = "no"
    /\ ws_handle = NewHandle
    /\ ev = NoEv
    /\ provider = IdleProv
    /\ master = IdleWorker
    /\ slave = IdleWorker
    /\ sst = NoSst
    /\ node = NoNode
    /\ gtid_mtx = Unlocked
    /\ cluster = NoCluster

Outcome(r) ==
    /\ store' = r.store
    /\ fatal' = r.fatal

SUpdateMembership(v) ==
    /\ fatal = "no"
    /\ LET r == node_store_update_membership(store, v)
       IN  /\ Outcome(r)
           /\ ev' = Ev("update_membership", v.state_id, Res(r))
    /\ UNCHANGED <<cluster, gtid_mtx, node, sst, NDEBUG, ws_handle, nodeVars>>

SExecute(idx_from, idx_to, alloc, prov) ==
    /\ fatal = "no"
    /\ ws_handle.ws = <<>> \/ ws_handle.trx # NoTrx
    /\ ws_handle.trx # NoTrx => Len(ws_handle.trx.ops) < MaxOps
    /\ LET r == node_store_execute(store, ws_handle, idx_from, idx_to, alloc, prov)
       IN  /\ ws_handle' = (IF r.ret = "WSREP_OK" THEN r.hnd ELSE NewHandle)
           /\ ev' = Ev("execute", store.gtid, IF r.ret = "WSREP_OK" THEN "ok" ELSE "fail")
    /\ UNCHANGED <<cluster, gtid_mtx, node, sst, NDEBUG, store, fatal, nodeVars>>

SCommit(g) ==
    /\ fatal = "no"
    /\ ws_handle.trx # NoTrx
    /\ store.read_view_fails < MaxFails
    /\ LET r == node_store_commit(store, ws_handle.trx, g)
       IN  /\ Outcome(r)
           /\ ev' = Ev("commit", g,
                       IF r.fatal # "no" THEN "fatal"
                       ELSE IF r.store.read_view_fails # store.read_view_fails
                       THEN "fail" ELSE "ok")
    /\ ws_handle' = NewHandle
    /\ UNCHANGED <<cluster, gtid_mtx, node, sst, NDEBUG, nodeVars>>

SUpdateGtid(g) ==
    /\ fatal = "no"
    /\ LET r == node_store_update_gtid(store, g)
       IN  /\ Outcome(r)
           /\ ev' = Ev("update_gtid", g, Res(r))
    /\ UNCHANGED <<cluster, gtid_mtx, node, sst, NDEBUG, ws_handle, nodeVars>>

SInitState(state, junk) ==
    /\ fatal = "no"
    /\ LET r == node_store_init_state(store, state, junk)
       IN  /\ store' = r.store
           /\ ev' = Ev("init_state", store.gtid, IF r.ret = 0 THEN "ok" ELSE "fail")
    /\ UNCHANGED <<cluster, gtid_mtx, node, sst, NDEBUG, fatal, ws_handle, nodeVars>>

\* node_store_rollback: store_trx_free(), nothing else
SRollback ==
    /\ fatal = "no"
    /\ ws_handle.trx # NoTrx
    /\ ws_handle' = NewHandle
    /\ ev' = Ev("rollback", store.gtid, "ok")
    /\ UNCHANGED <<cluster, gtid_mtx, node, sst, NDEBUG, store, fatal, nodeVars>>

NextStore ==
    \/ \E v \in Views : SUpdateMembership(v)
    \/ \E i, j \in Indices, a \in Allocs, p \in ProvRets : SExecute(i, j, a, p)
    \/ \E g \in Gtids : SCommit(g)
    \/ \E g \in Gtids : SUpdateGtid(g)
    \/ SRollback
    \/ \E b \in Snapshots, j \in Junk : SInitState(b, j)

SpecStore == InitStore /\ [][NextStore]_vars

Alive == fatal = "no"

(***************************************************************************)
(* SpecSnap: a donor's Store (store) whose snapshot is acquired, sent to   *)
(* a joining node and released, while the Store goes on: views, seqnos of  *)
(* failed write-sets, transactions of one operation, installed snapshots.  *)
(***************************************************************************)
\* the state a snapshot carries
StateOf(st) ==
    [gtid |-> st.gtid, members |-> st.members, members_num |-> st.members_num,
     read_view_support |-> st.read_view_support,
     records |-> st.records, records_num |-> st.records_num]

SAcquireState(alloc) ==
    /\ fatal = "no"
    /\ LET r == node_store_acquire_state(store, alloc)
       IN  /\ Outcome(r)
           /\ ev' = Ev("acquire_state", store.gtid,
                       IF r.fatal # "no" THEN "fatal"
                       ELSE IF r.ret = "0" THEN "ok" ELSE r.ret)
           /\ sst' = IF r.ret = "0" THEN [sst EXCEPT !.of = StateOf(store)] ELSE sst
    /\ UNCHANGED <<cluster, gtid_mtx, node, NDEBUG, ws_handle, nodeVars>>

SReleaseState ==
    /\ fatal = "no"
    /\ LET r == node_store_release_state(store)
       IN  /\ Outcome(r)
           /\ ev' = Ev("release_state", store.gtid, Res(r))
    /\ sst' = [sst EXCEPT !.of = NoSnapshot]
    /\ UNCHANGED <<cluster, gtid_mtx, node, NDEBUG, ws_handle, nodeVars>>

\* the joining node installs the snapshot the donor holds
SJoinerInitState(junk) ==
    /\ fatal = "no"
    /\ store.snapshot # NoSnapshot
    /\ LET r == node_store_init_state(sst.joiner, store.snapshot, junk)
       IN  /\ sst' = [sst EXCEPT !.joiner = r.store]
           /\ ev' = Ev("joiner_init_state", store.gtid,
                       IF r.ret = 0 THEN "ok" ELSE "fail")
    /\ UNCHANGED <<cluster, gtid_mtx, node, NDEBUG, store, fatal, ws_handle, nodeVars>>

\* what the joining node may be handed besides Snapshots: a donor's snapshot
\* that ends behind the members, one whose GTID text has lost its colon,
\* one that claims a single member
Received ==
    Snapshots \cup
    UNION {LET b == snapshot_of(d)
               n == Len(wsrep_gtid_print(d.gtid))
           IN  {SubSeq(b, 1, n + 2 + d.members_num),
                [b EXCEPT ![2] = NUL],
                [b EXCEPT ![n + 2] = cell(4, 1)]}
           : d \in Donors}

\* the views of SpecSnap: those of Views, in either epoch
AllViews == {[v EXCEPT !.state_id.uuid = u] : v \in Views, u \in Uuids}

NextSnap ==
    \/ \E v \in AllViews : SUpdateMembership(v)
    \/ \E g \in Gtids : SUpdateGtid(g)
    \/ \E b \in Received, j \in Junk : SInitState(b, j)
    \/ \E a \in Allocs : SAcquireState(a)
    \/ SReleaseState
    \/ \E j \in Junk : SJoinerInitState(j)

SpecSnap == InitStore /\ [][NextSnap]_vars

(***************************************************************************)
(* SpecPin: the Store with a snapshot acquired and released while          *)
(* transactions of one operation commit, seqnos of failed write-sets and   *)
(* views pass and whole snapshots of other nodes are installed.            *)
(***************************************************************************)
WholeSnapshots == {snapshot_of(d) : d \in Donors}

NextPin ==
    \/ \E v \in Views : SUpdateMembership(v)
    \/ \E i, j \in Indices :
          ws_handle.trx = NoTrx /\ SExecute(i, j, TRUE, "WSREP_OK")
    \/ \E g \in Gtids : SCommit(g)
    \/ \E g \in Gtids : SUpdateGtid(g)
    \/ \E b \in WholeSnapshots, j \in Junk : SInitState(b, j)
    \/ \E a \in Allocs : SAcquireState(a)
    \/ SReleaseState

SpecPin == InitStore /\ [][NextPin]_vars

(***************************************************************************)
(* Spec: one node of a cluster.  The master worker runs node_trx_execute   *)
(* in a loop; the slave worker is called back by the provider with the     *)
(* write-sets of the other nodes (node_worker_apply_cb, node_trx_apply).   *)
(* The provider puts all write-sets in one total order and admits them to  *)
(* the commit-order critical section in that order.  Each worker keeps,    *)
(* for the call it is in or has last returned from: the provider calls it  *)
(* made (enter_calls, entered, left), its rollbacks, and what its steps    *)
(* did to the Store (adv, writes, fails, memb).                            *)
(***************************************************************************)
\* the uuid of the cluster the node is a member of
ClusterUuid == CHOOSE u \in Uuids : \A v \in Uuids : u <= v
CertStatuses == {"WSREP_OK", "WSREP_TRX_FAIL", "WSREP_BF_ABORT",
                 "WSREP_CONN_FAIL", "WSREP_NODE_FAIL"}
OrderStatuses == {"WSREP_OK", "WSREP_NODE_FAIL"}
\* the value of a wsrep_trx_id_t nothing was assigned to
Uninitialized == [uninitialized |-> TRUE]

\* what a step of worker w did to the Store
Tally(w) ==
    [w EXCEPT !.adv    = @ + (store'.gtid.seqno - store.gtid.seqno),
              !.writes = @ + Cardinality({i \in DOMAIN store.records :
                                             store'.records[i] # store.records[i]}),
              !.fails  = @ + (store'.read_view_fails - store.read_view_fails),
              !.memb   = @ + (IF store'.members # store.members THEN 1 ELSE 0)]

\* the first primary view of a two-node cluster
FirstView(cap) ==
    [state_id |-> [uuid |-> ClusterUuid, seqno |-> 0],
     members |-> <<1, 2>>, cap_snapshot |-> cap]

Init ==
    /\ NDEBUG \in BOOLEAN
    /\ \E cap \in BOOLEAN :
          store = node_store_update_membership(
                      node_store_open(OPT_RECORDS, 0, MaxOps), FirstView(cap)).store
    /\ fatal = "no"
    /\ ws_handle = NewHandle
    /\ ev = NoEv
    /\ provider = IdleProv
    /\ master = IdleWorker
    /\ slave = IdleWorker
    /\ sst = NoSst
    /\ node = NoNode
    /\ gtid_mtx = Unlocked
    /\ cluster = NoCluster

\* node_store_rollback: assert(trx_id), store_trx_free()
node_store_rollback(trx) ==
    IF trx = NoTrx /\ ~NDEBUG
    THEN [trx |-> trx, fatal |-> "assert trx_id"]
    ELSE [trx |-> NoTrx, fatal |-> "no"]

\* a cleanup that never rolls back
cleanup_no_rollback(w, hnd) ==
    [worker |-> [w EXCEPT !.pc = "idle",
                          !.ret = IF w.ret # "WSREP_OK" THEN w.ret ELSE w.cert],
     hnd    |-> [trx |-> hnd.trx, ws |-> <<>>],
     fatal  |-> "no"]

\* node_trx_execute from the label cleanup on: the rollback unless certify
\* returned WSREP_OK or WSREP_BF_ABORT, release(), return ret ? ret : cert
cleanup(w, hnd) ==
    LET rb == w.cert # "WSREP_OK" /\ w.cert # "WSREP_BF_ABORT"
        r  == node_store_rollback(hnd.trx)
    IN  [worker |-> [w EXCEPT !.pc = "idle",
                              !.rollbacks = IF rb THEN @ + 1 ELSE @,
                              !.ret = IF w.ret # "WSREP_OK" THEN w.ret ELSE w.cert],
         hnd    |-> [trx |-> IF rb THEN r.trx ELSE hnd.trx, ws |-> <<>>],
         fatal  |-> IF rb THEN r.fatal ELSE "no"]

\* worker_master: call node_trx_execute (again) after WSREP_OK, after
\* WSREP_TRX_FAIL, and after WSREP_CONN_FAIL once the node is synced
node_trx_execute_begin ==
    /\ fatal = "no"
    /\ master.pc = "idle"
    /\ master.ret \in {"WSREP_OK", "WSREP_TRX_FAIL", "WSREP_CONN_FAIL"}
    /\ master' = [IdleWorker EXCEPT !.pc = "execute", !.ops_left = MaxOps]
    /\ ws_handle' = NewHandle
    /\ UNCHANGED <<cluster, gtid_mtx, node, sst, NDEBUG, store, fatal, ev, provider, slave>>

\* a node_trx_execute that returns after a failed node_store_execute without
\* release()
node_trx_execute_op_no_release(idx_from, idx_to, alloc, prov) ==
    /\ fatal = "no"
    /\ master.pc = "execute"
    /\ LET r == node_store_execute(store, ws_handle, idx_from, idx_to, alloc, prov)
           c == cleanup([master EXCEPT !.ret = "WSREP_TRX_FAIL",
                                       !.exec = r.ret], r.hnd)
       IN  IF r.ret # "WSREP_OK"
           THEN /\ master' = c.worker
                /\ ws_handle' = r.hnd
                /\ fatal' = c.fatal
           ELSE /\ master' = [master EXCEPT
                                 !.exec = r.ret,
                                 !.ops_left = @ - 1,
                                 !.pc = IF master.ops_left = 1 THEN "certify" ELSE @]
                /\ ws_handle' = r.hnd
                /\ fatal' = fatal
    /\ UNCHANGED <<cluster, gtid_mtx, node, sst, NDEBUG, store, ev, provider, slave>>

\* one turn of the loop while (ops_num--); exec: what node_store_execute
\* returned
node_trx_execute_op(idx_from, idx_to, alloc, prov) ==
    /\ fatal = "no"
    /\ master.pc = "execute"
    /\ LET r == node_store_execute(store, ws_handle, idx_from, idx_to, alloc, prov)
           c == cleanup([master EXCEPT !.ret = "WSREP_TRX_FAIL",
                                       !.exec = r.ret], r.hnd)
       IN  IF r.ret # "WSREP_OK"
           THEN /\ master' = c.worker
                /\ ws_handle' = c.hnd
                /\ fatal' = c.fatal
           ELSE /\ master' = [master EXCEPT
                                 !.exec = r.ret,
                                 !.ops_left = @ - 1,
                                 !.pc = IF master.ops_left = 1 THEN "certify" ELSE @]
                /\ ws_handle' = r.hnd
                /\ fatal' = fatal
    /\ UNCHANGED <<cluster, gtid_mtx, node, sst, NDEBUG, store, ev, provider, slave>>

\* a certify step that enters commit order only after WSREP_OK
node_trx_execute_certify_ok_only(status, ordered) ==
    /\ fatal = "no"
    /\ master.pc = "certify"
    /\ status = "WSREP_OK" => ordered
    /\ ordered => ~provider.failed /\ provider.last_ordered < MaxSeqno
    /\ provider.failed => status \in {"WSREP_CONN_FAIL", "WSREP_NODE_FAIL"}
    /\ LET meta == IF ordered
                   THEN [uuid |-> ClusterUuid, seqno |-> provider.last_ordered + 1]
                   ELSE WSREP_GTID_UNDEFINED
           w1   == [master EXCEPT !.cert = status, !.meta = meta]
           c    == cleanup(w1, ws_handle)
       IN  /\ provider' = [provider EXCEPT
                              !.last_ordered = IF ordered THEN @ + 1 ELSE @]
           /\ IF status = "WSREP_OK"
              THEN /\ master' = [w1 EXCEPT !.pc = "enter"]
                   /\ UNCHANGED <<ws_handle, fatal>>
              ELSE /\ master' = c.worker
                   /\ ws_handle' = c.hnd
                   /\ fatal' = c.fatal
    /\ UNCHANGED <<cluster, gtid_mtx, node, sst, NDEBUG, store, ev, slave>>

\* certify, the rollback on WSREP_BF_ABORT, and the branch on
\* ws_meta.gtid.seqno > 0.  status and ordered are the provider's answer.
node_trx_execute_certify(status, ordered) ==
    /\ fatal = "no"
    /\ master.pc = "certify"
    /\ status = "WSREP_OK" => ordered
    /\ ordered => ~provider.failed /\ provider.last_ordered < MaxSeqno
    /\ provider.failed => status \in {"WSREP_CONN_FAIL", "WSREP_NODE_FAIL"}
    /\ LET meta == IF ordered
                   THEN [uuid |-> ClusterUuid, seqno |-> provider.last_ordered + 1]
                   ELSE WSREP_GTID_UNDEFINED
           bf   == status = "WSREP_BF_ABORT"
           rb   == node_store_rollback(ws_handle.trx)
           hnd1 == IF bf THEN [ws_handle EXCEPT !.trx = rb.trx] ELSE ws_handle
           w1   == [master EXCEPT !.cert = status, !.meta = meta,
                                  !.rollbacks = IF bf THEN @ + 1 ELSE @]
           c    == cleanup(w1, hnd1)
       IN  /\ provider' = [provider EXCEPT
                              !.last_ordered = IF ordered THEN @ + 1 ELSE @]
           /\ IF bf /\ rb.fatal # "no"
              THEN master' = w1 /\ ws_handle' = hnd1 /\ fatal' = rb.fatal
              ELSE IF meta.seqno > 0
              THEN /\ master' = [w1 EXCEPT !.pc = "enter"]
                   /\ ws_handle' = hnd1
                   /\ fatal' = fatal
              ELSE /\ master' = c.worker
                   /\ ws_handle' = c.hnd
                   /\ fatal' = c.fatal
    /\ UNCHANGED <<cluster, gtid_mtx, node, sst, NDEBUG, store, ev, slave>>

\* commit_order_enter of the provider: WSREP_OK once every earlier write-set
\* has left the critical section, or the failure of the provider
commit_order_enter(meta, status) ==
    IF status = "WSREP_OK"
    THEN ~provider.failed /\ provider.last_left = meta.seqno - 1
    ELSE TRUE

\* a master that goes on to the commit whatever commit_order_enter returns
node_trx_execute_enter_ignored(status) ==
    /\ fatal = "no"
    /\ master.pc = "enter"
    /\ commit_order_enter(master.meta, status)
    /\ master' = [master EXCEPT !.enter_calls = Append(@, master.meta),
                                !.ret = status,
                                !.entered = IF status = "WSREP_OK"
                                            THEN Append(@, master.meta) ELSE @,
                                !.pc = "ordered"]
    /\ provider' = IF status = "WSREP_OK" THEN provider
                   ELSE [provider EXCEPT !.failed = TRUE]
    /\ UNCHANGED <<ws_handle, fatal>>
    /\ UNCHANGED <<cluster, gtid_mtx, node, sst, NDEBUG, store, ev, slave>>

\* commit_order_enter and, when it fails, goto cleanup
node_trx_execute_enter(status) ==
    /\ fatal = "no"
    /\ master.pc = "enter"
    /\ commit_order_enter(master.meta, status)
    /\ LET w1 == [master EXCEPT !.enter_calls = Append(@, master.meta),
                                !.ret = status]
           c  == cleanup(w1, ws_handle)
       IN  IF status # "WSREP_OK"
           THEN /\ master' = c.worker
                /\ ws_handle' = c.hnd
                /\ fatal' = c.fatal
                /\ provider' = [provider EXCEPT !.failed = TRUE]
           ELSE /\ master' = [w1 EXCEPT !.entered = Append(@, master.meta),
                                        !.pc = "ordered"]
                /\ UNCHANGED <<ws_handle, fatal, provider>>
    /\ UNCHANGED <<cluster, gtid_mtx, node, sst, NDEBUG, store, ev, slave>>

\* inside the commit monitor: node_store_commit when certification
\* succeeded, node_store_update_gtid otherwise
node_trx_execute_commit ==
    /\ fatal = "no"
    /\ master.pc = "ordered"
    /\ Outcome(IF master.cert = "WSREP_OK"
               THEN node_store_commit(store, ws_handle.trx, master.meta)
               ELSE node_store_update_gtid(store, master.meta))
    /\ ws_handle' = IF master.cert = "WSREP_OK"
                    THEN [ws_handle EXCEPT !.trx = NoTrx] ELSE ws_handle
    /\ master' = Tally([master EXCEPT !.pc = "leave"])
    /\ UNCHANGED <<cluster, gtid_mtx, node, sst, NDEBUG, ev, provider, slave>>

\* a return from the commit monitor that forgets commit_order_leave
node_trx_execute_leave_skipped(status) ==
    /\ fatal = "no"
    /\ master.pc = "leave"
    /\ LET c == cleanup(master, ws_handle)
       IN  /\ master' = c.worker
           /\ ws_handle' = c.hnd
           /\ fatal' = c.fatal
    /\ provider' = [provider EXCEPT !.last_left = master.meta.seqno]
    /\ UNCHANGED <<cluster, gtid_mtx, node, sst, NDEBUG, store, ev, slave>>

\* commit_order_leave, then cleanup
node_trx_execute_leave(status) ==
    /\ fatal = "no"
    /\ master.pc = "leave"
    /\ LET c == cleanup([master EXCEPT !.left = Append(@, master.meta),
                                       !.ret = status], ws_handle)
       IN  /\ master' = c.worker
           /\ ws_handle' = c.hnd
           /\ fatal' = c.fatal
    /\ provider' = IF status = "WSREP_OK"
                   THEN [provider EXCEPT !.last_left = master.meta.seqno]
                   ELSE [provider EXCEPT !.failed = TRUE]
    /\ UNCHANGED <<cluster, gtid_mtx, node, sst, NDEBUG, store, ev, slave>>

\* the provider orders a write-set of another node (executed there on the
\* records this node has now) and calls node_worker_apply_cb, which calls
\* node_trx_apply: the buffer is NULL when the write-set carries
\* WSREP_FLAG_ROLLBACK, node_store_apply() otherwise
node_worker_apply_cb(idx_from, idx_to, rollback, alloc) ==
    /\ fatal = "no"
    /\ slave.pc = "idle"
    /\ slave.ret = "WSREP_OK"
    /\ ~provider.failed
    /\ provider.last_ordered < MaxSeqno
    /\ LET ws   == node_store_execute(store, NewHandle, idx_from, idx_to,
                                      TRUE, "WSREP_OK").hnd.ws
           meta == [uuid |-> ClusterUuid, seqno |-> provider.last_ordered + 1]
           r    == node_store_apply(store, ws, alloc)
           w1   == [IdleWorker EXCEPT !.pc = "enter", !.meta = meta]
       IN  IF rollback
           THEN /\ slave' = [w1 EXCEPT !.app_err = TRUE, !.trx = Uninitialized]
                /\ fatal' = fatal
           ELSE /\ slave' = [w1 EXCEPT !.app_err = (r.ret # "0"), !.trx = r.trx]
                /\ fatal' = r.fatal
    /\ provider' = [provider EXCEPT !.last_ordered = @ + 1]
    /\ UNCHANGED <<cluster, gtid_mtx, node, sst, NDEBUG, store, ws_handle, ev, master>>

\* commit_order_enter; on failure node_store_rollback(store, trx_id) and
\* return.  trx_id is uninitialized when the buffer was NULL: free() of it
\* passes unnoticed or ends the process.
node_trx_apply_enter(status, ub) ==
    /\ fatal = "no"
    /\ slave.pc = "enter"
    /\ commit_order_enter(slave.meta, status)
    /\ LET w1 == [slave EXCEPT !.enter_calls = Append(@, slave.meta),
                               !.ret = status]
           rb == node_store_rollback(slave.trx)
       IN  IF status # "WSREP_OK"
           THEN /\ slave' = [w1 EXCEPT !.pc = "idle", !.rollbacks = @ + 1,
                                       !.trx = rb.trx]
                /\ fatal' = IF slave.trx = Uninitialized /\ ub
                            THEN "free of an uninitialized trx_id" ELSE rb.fatal
                /\ provider' = [provider EXCEPT !.failed = TRUE]
           ELSE /\ slave' = [w1 EXCEPT !.entered = Append(@, slave.meta),
                                       !.pc = "ordered"]
                /\ UNCHANGED <<fatal, provider>>
    /\ UNCHANGED <<cluster, gtid_mtx, node, sst, NDEBUG, store, ws_handle, ev, master>>

\* a slave that passes a skipped write-set without telling the Store
node_trx_apply_commit_applied_only ==
    /\ fatal = "no"
    /\ slave.pc = "ordered"
    /\ Outcome(IF ~slave.app_err
               THEN node_store_commit(store, slave.trx, slave.meta)
               ELSE Done(store))
    /\ slave' = Tally([slave EXCEPT !.pc = "leave",
                                    !.trx = IF slave.app_err THEN @ ELSE NoTrx])
    /\ UNCHANGED <<cluster, gtid_mtx, node, sst, NDEBUG, ws_handle, ev, provider, master>>

\* node_store_commit when the write-set was applied, node_store_update_gtid
\* otherwise
node_trx_apply_commit ==
    /\ fatal = "no"
    /\ slave.pc = "ordered"
    /\ Outcome(IF ~slave.app_err
               THEN node_store_commit(store, slave.trx, slave.meta)
               ELSE node_store_update_gtid(store, slave.meta))
    /\ slave' = Tally([slave EXCEPT !.pc = "leave",
                                    !.trx = IF slave.app_err THEN @ ELSE NoTrx])
    /\ UNCHANGED <<cluster, gtid_mtx, node, sst, NDEBUG, ws_handle, ev, provider, master>>

\* commit_order_leave and return
node_trx_apply_leave(status) ==
    /\ fatal = "no"
    /\ slave.pc = "leave"
    /\ slave' = [slave EXCEPT !.left = Append(@, slave.meta), !.ret = status,
                              !.pc = "idle"]
    /\ provider' = IF status = "WSREP_OK"
                   THEN [provider EXCEPT !.last_left = slave.meta.seqno]
                   ELSE [provider EXCEPT !.failed = TRUE]
    /\ UNCHANGED <<cluster, gtid_mtx, node, sst, NDEBUG, store, fatal, ws_handle, ev, master>>

Next ==
    \/ node_trx_execute_begin
    \/ \E i, j \in Indices, a \in Allocs, p \in ProvRets : node_trx_execute_op(i, j, a, p)
    \/ \E st \in CertStatuses, o \in BOOLEAN : node_trx_execute_certify(st, o)
    \/ \E st \in OrderStatuses : node_trx_execute_enter(st)
    \/ node_trx_execute_commit
    \/ \E st \in OrderStatuses : node_trx_execute_leave(st)
    \/ \E i, j \in Indices, rb \in BOOLEAN, a \in Allocs : node_worker_apply_cb(i, j, rb, a)
    \/ \E st \in OrderStatuses, ub \in BOOLEAN : node_trx_apply_enter(st, ub)
    \/ node_trx_apply_commit
    \/ \E st \in OrderStatuses : node_trx_apply_leave(st)

Spec == Init /\ [][Next]_vars

(***************************************************************************)
(* SpecSst: the state transfer of a node.  As a joiner (Store sst.joiner)  *)
(* it is called back with node_sst_request_cb and runs sst_joiner_thread;  *)
(* as a donor (Store store) it is called back with node_sst_donate_cb and  *)
(* runs sst_donor_thread while write-sets go on being ordered.  A callback *)
(* returns when its thread has reached sst_sync_with_parent.  The errors   *)
(* are "0", "-1" (the socket calls, node_store_init_state) and the names   *)
(* of negative errno values.                                               *)
(***************************************************************************)
RequestOutcomes ==
    {"malloc fails", "snprintf fails", "listen fails", "pthread_create fails", "ok"}
JoinerPaths ==
    {"accept fails", "recv fails", "bypass", "malloc fails", "state recv fails",
     "state"}
DonateOutcomes == {"bad request", "connect fails", "pthread_create fails", "ok"}
SendOutcomes == {"ok", "length fails", "state fails"}
SstStatuses == {"WSREP_OK", "WSREP_CONN_FAIL"}
Finished == {"idle", "done", "refused"}

\* node_sst_request_cb with sst_create_and_sync: the joiner thread is
\* started unless the request cannot be made; abort() when the thread cannot
\* be created
node_sst_request_cb(outcome) ==
    /\ fatal = "no"
    /\ sst.jpc \in Finished
    /\ sst' = [sst EXCEPT !.jpc = IF outcome = "ok" THEN "accept" ELSE "refused",
                          !.jerr = "-1", !.jcalls = 0, !.jpath = "none",
                          !.jlen = -1, !.jgtid = WSREP_GTID_UNDEFINED,
                          !.received = NoCall]
    /\ fatal' = IF outcome = "pthread_create fails" THEN "sst_create_and_sync"
                ELSE "no"
    /\ ev' = Ev("sst_request_cb", store.gtid,
                IF outcome = "ok" THEN "WSREP_CB_SUCCESS"
                ELSE IF outcome = "pthread_create fails" THEN "fatal"
                ELSE "WSREP_CB_FAILURE")
    /\ UNCHANGED <<cluster, gtid_mtx, node, NDEBUG, store, ws_handle, nodeVars>>

\* a joiner thread that reads the Store's GTID only after it has installed
\* a state
sst_joiner_thread_blank(path, state, junk) ==
    /\ fatal = "no"
    /\ sst.jpc = "accept"
    /\ LET r   == node_store_init_state(sst.joiner, state, junk)
           err == CASE path = "bypass" -> "0"
                    [] path = "malloc fails" -> "ENOMEM"
                    [] path = "state" -> (IF r.ret = 0 THEN "0" ELSE "-1")
                    [] OTHER -> "-1"
           joiner == IF path = "state" THEN r.store ELSE sst.joiner
       IN  /\ sst' = [sst EXCEPT
                        !.joiner = joiner, !.jerr = err, !.jpc = "end",
                        !.jpath = path,
                        !.jlen = CASE path \in {"accept fails", "recv fails"} -> -1
                                   [] path = "bypass" -> 0
                                   [] OTHER -> BufLen(state),
                        !.jgtid = IF err = "0" /\ path = "state" THEN joiner.gtid
                                  ELSE WSREP_GTID_UNDEFINED]
           /\ ev' = Ev("sst_joiner_thread", store.gtid, err)
    /\ UNCHANGED <<cluster, gtid_mtx, node, NDEBUG, store, fatal, ws_handle, nodeVars>>

\* a joiner thread that loses the error of a short read of the state
sst_joiner_thread_lenient(path, state, junk) ==
    /\ fatal = "no"
    /\ sst.jpc = "accept"
    /\ LET r   == node_store_init_state(sst.joiner, state, junk)
           err == CASE path = "bypass" -> "0"
                    [] path = "malloc fails" -> "ENOMEM"
                    [] path = "state" -> (IF r.ret = 0 THEN "0" ELSE "-1")
                    [] path = "state recv fails" -> "0"
                    [] OTHER -> "-1"
           joiner == IF path = "state" THEN r.store ELSE sst.joiner
       IN  /\ sst' = [sst EXCEPT
                        !.joiner = joiner, !.jerr = err, !.jpc = "end",
                        !.jpath = path,
                        !.jlen = CASE path \in {"accept fails", "recv fails"} -> -1
                                   [] path = "bypass" -> 0
                                   [] OTHER -> BufLen(state),
                        !.jgtid = IF err = "0" THEN joiner.gtid
                                  ELSE WSREP_GTID_UNDEFINED]
           /\ ev' = Ev("sst_joiner_thread", store.gtid, err)
    /\ UNCHANGED <<cluster, gtid_mtx, node, NDEBUG, store, fatal, ws_handle, nodeVars>>

\* a joiner thread that reads the Store's GTID on every path to the label end
sst_joiner_thread_always_reads(path, state, junk) ==
    /\ fatal = "no"
    /\ sst.jpc = "accept"
    /\ LET r   == node_store_init_state(sst.joiner, state, junk)
           err == CASE path = "bypass" -> "0"
                    [] path = "malloc fails" -> "ENOMEM"
                    [] path = "state" -> (IF r.ret = 0 THEN "0" ELSE "-1")
                    [] OTHER -> "-1"
           joiner == IF path = "state" THEN r.store ELSE sst.joiner
       IN  /\ sst' = [sst EXCEPT
                        !.joiner = joiner, !.jerr = err, !.jpc = "end",
                        !.jpath = path,
                        !.jlen = CASE path \in {"accept fails", "recv fails"} -> -1
                                   [] path = "bypass" -> 0
                                   [] OTHER -> BufLen(state),
                        !.jgtid = joiner.gtid]
           /\ ev' = Ev("sst_joiner_thread", store.gtid, err)
    /\ UNCHANGED <<cluster, gtid_mtx, node, NDEBUG, store, fatal, ws_handle, nodeVars>>

\* sst_joiner_thread from the accept to the label end: state is what the
\* socket delivers when all receives succeed
sst_joiner_thread(path, state, junk) ==
    /\ fatal = "no"
    /\ sst.jpc = "accept"
    /\ LET r   == node_store_init_state(sst.joiner, state, junk)
           err == CASE path = "bypass" -> "0"
                    [] path = "malloc fails" -> "ENOMEM"
                    [] path = "state" -> (IF r.ret = 0 THEN "0" ELSE "-1")
                    [] OTHER -> "-1"
           joiner == IF path = "state" THEN r.store ELSE sst.joiner
       IN  /\ sst' = [sst EXCEPT
                        !.joiner = joiner, !.jerr = err, !.jpc = "end",
                        !.jpath = path,
                        !.jlen = CASE path \in {"accept fails", "recv fails"} -> -1
                                   [] path = "bypass" -> 0
                                   [] OTHER -> BufLen(state),
                        !.jgtid = IF err = "0" THEN joiner.gtid
                                  ELSE WSREP_GTID_UNDEFINED]
           /\ ev' = Ev("sst_joiner_thread", store.gtid, err)
    /\ UNCHANGED <<cluster, gtid_mtx, node, NDEBUG, store, fatal, ws_handle, nodeVars>>

\* sst_joiner_thread from the label end: sst_received, abort() unless the
\* provider returns WSREP_OK
sst_joiner_thread_end(status) ==
    /\ fatal = "no"
    /\ sst.jpc = "end"
    /\ sst' = [sst EXCEPT !.jcalls = @ + 1, !.jpc = "done",
                          !.received = [gtid |-> sst.jgtid, rcode |-> sst.jerr]]
    /\ fatal' = IF status = "WSREP_OK" THEN "no" ELSE "sst_received"
    /\ ev' = Ev("sst_received", sst.jgtid,
                IF status = "WSREP_OK" THEN sst.jerr ELSE "fatal")
    /\ UNCHANGED <<cluster, gtid_mtx, node, NDEBUG, store, ws_handle, nodeVars>>

\* node_sst_donate_cb with sst_create_and_sync and sst_donor_thread up to
\* sst_sync_with_parent: the thread acquires the snapshot unless bypass; when
\* node_store_acquire_state fails state_len is never assigned, and junk is
\* what reading it yields
node_sst_donate_cb(outcome, bypass, alloc, junk) ==
    /\ fatal = "no"
    /\ sst.dpc \in Finished
    /\ IF outcome = "ok" /\ ~bypass
       THEN LET r == node_store_acquire_state(store, alloc)
            IN  /\ Outcome(r)
                /\ sst' = [sst EXCEPT
                             !.dpc = IF r.fatal = "no" THEN "send" ELSE "acquire",
                             !.derr = r.ret,
                             !.dlen = IF r.ret = "0" THEN BufLen(r.store.snapshot)
                                      ELSE junk,
                             !.dcalls = 0,
                             !.dacq = IF r.ret = "0" THEN 1 ELSE 0,
                             !.drel = 0, !.dbypass = FALSE, !.dio = "none",
                             !.dwire = <<>>, !.sent = NoCall,
                             !.dstate = store.gtid,
                             !.of = IF r.ret = "0" THEN StateOf(store) ELSE @]
                /\ ev' = Ev("sst_donate_cb", store.gtid,
                            IF r.fatal = "no" THEN "WSREP_CB_SUCCESS" ELSE "fatal")
       ELSE /\ store' = store
            /\ fatal' = IF outcome = "pthread_create fails"
                        THEN "sst_create_and_sync" ELSE "no"
            /\ sst' = [sst EXCEPT
                         !.dpc = IF outcome = "ok" THEN "send" ELSE "refused",
                         !.derr = "0", !.dlen = 0, !.dcalls = 0,
                         !.dacq = 0, !.drel = 0, !.dbypass = bypass,
                         !.dio = "none", !.dwire = <<>>, !.sent = NoCall,
                         !.dstate = store.gtid]
            /\ ev' = Ev("sst_donate_cb", store.gtid,
                        IF outcome = "ok" THEN "WSREP_CB_SUCCESS"
                        ELSE IF outcome = "pthread_create fails" THEN "fatal"
                        ELSE "WSREP_CB_FAILURE")
    /\ UNCHANGED <<cluster, gtid_mtx, node, NDEBUG, ws_handle, nodeVars>>

\* a donor thread that reports a failed send where it happens, and again
\* at its end
sst_donor_thread_send_reporting(io) ==
    /\ fatal = "no"
    /\ sst.dpc = "send"
    /\ LET err1 == IF sst.derr = "0" /\ io = "length fails" THEN "-1" ELSE sst.derr
           err2 == IF sst.dlen # 0 /\ err1 = "0" /\ io = "state fails"
                   THEN "-1" ELSE err1
           r    == IF sst.dlen # 0 THEN node_store_release_state(store)
                   ELSE Done(store)
           hdr  == IF sst.derr = "0" THEN <<cell(4, sst.dlen)>> ELSE <<>>
           body == IF sst.dlen # 0 /\ err1 = "0" THEN store.snapshot ELSE <<>>
       IN  /\ Outcome(r)
           /\ sst' = [sst EXCEPT !.derr = err2,
                                 !.dio = IF sst.derr # "0" THEN "none"
                                         ELSE IF err2 = "0" THEN "ok"
                                         ELSE io,
                                 !.dwire = hdr \o body,
                                 !.dcalls = IF err2 # "0" THEN @ + 1 ELSE @,
                                 !.dpc = IF r.fatal = "no" THEN "sent" ELSE @,
                                 !.drel = IF sst.dlen # 0 THEN @ + 1 ELSE @,
                                 !.of = IF sst.dlen # 0 THEN NoSnapshot ELSE @]
           /\ ev' = Ev("sst_donor_thread", store.gtid,
                       IF r.fatal = "no" THEN err2 ELSE "fatal")
    /\ UNCHANGED <<cluster, gtid_mtx, node, NDEBUG, ws_handle, nodeVars>>

\* sst_donor_thread after sst_sync_with_parent: the length and the state
\* are sent, the snapshot is released when state_len is not 0
sst_donor_thread_send(io) ==
    /\ fatal = "no"
    /\ sst.dpc = "send"
    /\ LET err1 == IF sst.derr = "0" /\ io = "length fails" THEN "-1" ELSE sst.derr
           err2 == IF sst.dlen # 0 /\ err1 = "0" /\ io = "state fails"
                   THEN "-1" ELSE err1
           r    == IF sst.dlen # 0 THEN node_store_release_state(store)
                   ELSE Done(store)
           hdr  == IF sst.derr = "0" THEN <<cell(4, sst.dlen)>> ELSE <<>>
           body == IF sst.dlen # 0 /\ err1 = "0" THEN store.snapshot ELSE <<>>
       IN  /\ Outcome(r)
           /\ sst' = [sst EXCEPT !.derr = err2,
                                 !.dio = IF sst.derr # "0" THEN "none"
                                         ELSE IF err2 = "0" THEN "ok"
                                         ELSE io,
                                 !.dwire = hdr \o body,
                                 !.dpc = IF r.fatal = "no" THEN "sent" ELSE @,
                                 !.drel = IF sst.dlen # 0 THEN @ + 1 ELSE @,
                                 !.of = IF sst.dlen # 0 THEN NoSnapshot ELSE @]
           /\ ev' = Ev("sst_donor_thread", store.gtid,
                       IF r.fatal = "no" THEN err2 ELSE "fatal")
    /\ UNCHANGED <<cluster, gtid_mtx, node, NDEBUG, ws_handle, nodeVars>>

\* sst_donor_thread to its end: sst_sent, whose status is not looked at
sst_donor_thread_end(status) ==
    /\ fatal = "no"
    /\ sst.dpc = "sent"
    /\ sst' = [sst EXCEPT !.dcalls = @ + 1, !.dpc = "done",
                          !.sent = [gtid |-> sst.dstate, rcode |-> sst.derr]]
    /\ ev' = Ev("sst_sent", store.gtid, sst.derr)
    /\ UNCHANGED <<cluster, gtid_mtx, node, NDEBUG, store, fatal, ws_handle, nodeVars>>

NextSst ==
    \/ \E o \in RequestOutcomes : node_sst_request_cb(o)
    \/ \E p \in JoinerPaths, b \in Snapshots, j \in Junk : sst_joiner_thread(p, b, j)
    \/ \E s \in SstStatuses : sst_joiner_thread_end(s)
    \/ \E o \in DonateOutcomes, b \in BOOLEAN, a \in Allocs, j \in Junk :
          node_sst_donate_cb(o, b, a, j)
    \/ \E io \in SendOutcomes : sst_donor_thread_send(io)
    \/ \E s \in SstStatuses : sst_donor_thread_end(s)
    \/ \E g \in Gtids : SUpdateGtid(g)

SpecSst == Init /\ [][NextSst]_vars

(***************************************************************************)
(* The rendezvous of an SST callback with its thread (SpecSync):           *)
(* sst_create_and_sync in the callback, the head of sst_joiner_thread /    *)
(* sst_donor_thread up to and including sst_sync_with_parent.  The         *)
(* callback and the thread take their steps in any order; the mutex and    *)
(* the condition variable behave as POSIX says: pthread_cond_signal wakes  *)
(* a thread only if one is waiting, and pthread_cond_wait may return       *)
(* without having been signalled.  While the callback has not returned     *)
(* the provider delivers nothing; afterwards the Store moves on.           *)
(***************************************************************************)
SyncRoles == {"JOINER", "DONOR"}
SyncUnchanged == UNCHANGED <<cluster, gtid_mtx, node, NDEBUG, ws_handle, ev, nodeVars>>
Sync(f) == [sst EXCEPT !.sync = f]

\* node_sst_request_cb / node_sst_donate_cb reach sst_create_and_sync with
\* their context on the stack and lock the mutex
sst_create_and_sync_lock(role, bypass) ==
    /\ fatal = "no"
    /\ sst.sync.ppc \in {"idle", "returned"}
    /\ sst.sync.cpc \in {"idle", "done"}
    /\ sst.sync.mtx = "none"
    /\ role = "JOINER" => ~bypass
    /\ sst' = Sync([NoSync EXCEPT !.role = role, !.bypass = bypass,
                                  !.ppc = "create", !.mtx = "parent",
                                  !.ctx = "live", !.state = store.gtid])
    /\ UNCHANGED <<store, fatal>>
    /\ SyncUnchanged

\* sst_create_thread: the detached thread starts, or the process is aborted
sst_create_thread(ok) ==
    /\ fatal = "no"
    /\ sst.sync.ppc = "create"
    /\ IF ok
       THEN /\ sst' = Sync([sst.sync EXCEPT !.ppc = "wait", !.cpc = "start"])
            /\ UNCHANGED fatal
       ELSE /\ fatal' = "sst_create_and_sync"
            /\ UNCHANGED sst
    /\ UNCHANGED store
    /\ SyncUnchanged

\* pthread_cond_wait: the mutex is released and the callback blocks
pthread_cond_wait_block ==
    /\ fatal = "no"
    /\ sst.sync.ppc = "wait"
    /\ sst' = Sync([sst.sync EXCEPT !.ppc = "waiting", !.mtx = "none"])
    /\ UNCHANGED <<store, fatal>>
    /\ SyncUnchanged

\* pthread_cond_wait returns with the mutex locked: after a signal, or
\* spuriously
pthread_cond_wait_return(spurious) ==
    /\ fatal = "no"
    /\ sst.sync.ppc = "waiting"
    /\ sst.sync.signalled \/ spurious
    /\ sst.sync.mtx = "none"
    /\ sst' = Sync([sst.sync EXCEPT !.ppc = "unlock", !.mtx = "parent"])
    /\ UNCHANGED <<store, fatal>>
    /\ SyncUnchanged

\* sst_create_and_sync unlocks the mutex and the callback returns: its stack
\* context is gone
sst_create_and_sync_return ==
    /\ fatal = "no"
    /\ sst.sync.ppc = "unlock"
    /\ sst' = Sync([sst.sync EXCEPT !.ppc = "returned", !.mtx = "none",
                                    !.ctx = "gone"])
    /\ UNCHANGED <<store, fatal>>
    /\ SyncUnchanged

\* the thread copies what it needs from the context it was given: node and
\* socket in sst_joiner_thread, the whole sst_donor_ctx in sst_donor_thread
sst_thread_copy ==
    /\ fatal = "no"
    /\ sst.sync.cpc = "start"
    /\ sst' = Sync([sst.sync EXCEPT
                       !.copied = sst.sync.ctx,
                       !.cpc = IF sst.sync.role = "DONOR" /\ ~sst.sync.bypass
                               THEN "acquire" ELSE "sync"])
    /\ UNCHANGED <<store, fatal>>
    /\ SyncUnchanged

\* sst_donor_thread without bypass: node_store_acquire_state
sst_donor_thread_acquire(alloc) ==
    /\ fatal = "no"
    /\ sst.sync.cpc = "acquire"
    /\ LET r == node_store_acquire_state(store, alloc)
       IN  /\ Outcome(r)
           /\ sst' = Sync([sst.sync EXCEPT !.acquired = TRUE, !.cpc = "sync"])
    /\ SyncUnchanged

\* sst_sync_with_parent: pthread_mutex_lock
sst_sync_with_parent_lock ==
    /\ fatal = "no"
    /\ sst.sync.cpc = "sync"
    /\ sst.sync.mtx = "none"
    /\ sst' = Sync([sst.sync EXCEPT !.cpc = "signal", !.mtx = "child"])
    /\ UNCHANGED <<store, fatal>>
    /\ SyncUnchanged

\* sst_sync_with_parent: pthread_cond_signal, pthread_mutex_unlock; the
\* thread goes on with the transfer
sst_sync_with_parent ==
    /\ fatal = "no"
    /\ sst.sync.cpc = "signal"
    /\ sst' = Sync([sst.sync EXCEPT
                       !.signalled = (sst.sync.ppc = "waiting"),
                       !.cpc = "run", !.mtx = "none"])
    /\ UNCHANGED <<store, fatal>>
    /\ SyncUnchanged

\* the provider, not held up by a callback, has the Store take a GTID
SyncStoreMoves(g) ==
    /\ sst.sync.ppc \in {"idle", "returned"}
    /\ SUpdateGtid(g)

\* the thread ends the transfer; the donor releases the snapshot it holds
sst_thread_end ==
    /\ fatal = "no"
    /\ sst.sync.cpc = "run"
    /\ IF store.snapshot # NoSnapshot
       THEN Outcome(node_store_release_state(store))
       ELSE UNCHANGED <<store, fatal>>
    /\ sst' = Sync([sst.sync EXCEPT !.cpc = "done"])
    /\ SyncUnchanged

NextSync ==
    \/ \E r \in SyncRoles, b \in BOOLEAN : sst_create_and_sync_lock(r, b)
    \/ \E ok \in BOOLEAN : sst_create_thread(ok)
    \/ pthread_cond_wait_block
    \/ \E sp \in BOOLEAN : pthread_cond_wait_return(sp)
    \/ sst_create_and_sync_return
    \/ sst_thread_copy
    \/ \E a \in Allocs : sst_donor_thread_acquire(a)
    \/ sst_sync_with_parent_lock
    \/ sst_sync_with_parent
    \/ \E g \in Gtids : SyncStoreMoves(g)
    \/ sst_thread_end

SpecSync == Init /\ [][NextSync]_vars

(***************************************************************************)
(* The Store lock (SpecLock): store->gtid_mtx and the threads that use the *)
(* Store, statement by statement: a master in node_trx_execute, a slave    *)
(* in wsrep->recv and the callbacks it runs, the joiner thread and the     *)
(* donor thread of a state transfer.  A statement locks or unlocks the     *)
(* mutex, calls the provider, does socket I/O, or is local to the thread;  *)
(* what it returns chooses the statement that follows.  The threads take   *)
(* their statements in any order; pthread_mutex_lock waits for the owner.  *)
(***************************************************************************)
St(kind, next) == [kind |-> kind, next |-> next]

\* node_store_execute with the mutex held over the provider calls
node_store_execute_locked ==
    "node_store_execute" :> St("local", {"execute_lock", "release"}) @@
    "execute_lock"       :> St("lock", {"execute_read"}) @@
    "execute_read"       :> St("local", {"execute_check"}) @@
    "execute_unlock"     :> St("unlock", {"node_store_execute", "certify"}) @@
    "execute_check"      :> St("local", {"assign_read_view", "append_data_rv",
                                         "append_key_from", "execute_error"}) @@
    "assign_read_view"   :> St("provider", {"append_data_rv", "execute_error"}) @@
    "append_data_rv"     :> St("provider", {"append_key_from", "execute_error"}) @@
    "append_key_from"    :> St("provider", {"append_key_to", "execute_error"}) @@
    "append_key_to"      :> St("provider", {"append_data_op", "execute_error"}) @@
    "append_data_op"     :> St("provider", {"execute_unlock", "execute_error"}) @@
    "execute_error"      :> St("unlock", {"release"})

\* node_store_execute: the context and the operation, the read of the
\* records under the mutex, the read view check, the provider calls;
\* after it another operation, wsrep->certify or the cleanup
node_store_execute_steps ==
    "node_store_execute" :> St("local", {"execute_lock", "release"}) @@
    "execute_lock"       :> St("lock", {"execute_read"}) @@
    "execute_read"       :> St("local", {"execute_unlock"}) @@
    "execute_unlock"     :> St("unlock", {"execute_check"}) @@
    "execute_check"      :> St("local", {"assign_read_view", "append_data_rv",
                                         "append_key_from", "execute_error"}) @@
    "assign_read_view"   :> St("provider", {"append_data_rv", "execute_error"}) @@
    "append_data_rv"     :> St("provider", {"append_key_from", "execute_error"}) @@
    "append_key_from"    :> St("provider", {"append_key_to", "execute_error"}) @@
    "append_key_to"      :> St("provider", {"append_data_op", "execute_error"}) @@
    "append_data_op"     :> St("provider", {"node_store_execute", "certify",
                                            "execute_error"}) @@
    "execute_error"      :> St("local", {"release"})

\* node_store_commit and node_store_update_gtid, called between
\* commit_order_enter and commit_order_leave: store_update_gtid and the
\* commit-time check may abort the process
node_store_commit_steps ==
    "commit_lock"        :> St("lock", {"commit_body"}) @@
    "commit_body"        :> St("local", {"commit_unlock", "abort"}) @@
    "commit_unlock"      :> St("unlock", {"commit_order_leave"}) @@
    "update_gtid_lock"   :> St("lock", {"update_gtid_body"}) @@
    "update_gtid_body"   :> St("local", {"update_gtid_unlock", "abort"}) @@
    "update_gtid_unlock" :> St("unlock", {"commit_order_leave"}) @@
    "abort"              :> St("local", {})

\* node_trx_execute around node_store_execute
node_trx_execute_steps ==
    "node_trx_execute"   :> St("local", {"node_store_execute"}) @@
    "certify"            :> St("provider", {"commit_order_enter", "cleanup"}) @@
    "commit_order_enter" :> St("provider", {"commit_lock", "update_gtid_lock",
                                            "cleanup"}) @@
    "commit_order_leave" :> St("provider", {"cleanup"}) @@
    "cleanup"            :> St("local", {"release"}) @@
    "release"            :> St("provider", {"node_trx_execute"})

\* worker_slave: wsrep->recv runs node_trx_apply (the apply callback) and
\* node_store_update_membership (the view callback) in the slave's thread
worker_slave_steps ==
    "recv"               :> St("provider", {"node_store_apply",
                                            "update_membership_lock"}) @@
    "node_store_apply"   :> St("local", {"commit_order_enter"}) @@
    "commit_order_enter" :> St("provider", {"commit_lock", "update_gtid_lock",
                                            "rollback"}) @@
    "rollback"           :> St("local", {"recv"}) @@
    "commit_order_leave" :> St("provider", {"recv"}) @@
    "update_membership_lock"   :> St("lock", {"update_membership_body"}) @@
    "update_membership_body"   :> St("local", {"update_membership_unlock"}) @@
    "update_membership_unlock" :> St("unlock", {"recv"})

\* sst_joiner_thread after sst_sync_with_parent, with node_store_init_state
\* and node_store_gtid
sst_joiner_thread_steps ==
    "node_socket_accept" :> St("io", {"recv_state_len", "node_socket_close"}) @@
    "recv_state_len"     :> St("io", {"recv_state", "gtid_lock",
                                      "node_socket_close"}) @@
    "recv_state"         :> St("io", {"node_store_init_state",
                                      "node_socket_close"}) @@
    "node_store_init_state" :> St("local", {"init_state_lock",
                                            "node_socket_close"}) @@
    "init_state_lock"    :> St("lock", {"init_state_body"}) @@
    "init_state_body"    :> St("local", {"init_state_unlock"}) @@
    "init_state_unlock"  :> St("unlock", {"gtid_lock", "node_socket_close"}) @@
    "gtid_lock"          :> St("lock", {"gtid_body"}) @@
    "gtid_body"          :> St("local", {"gtid_unlock"}) @@
    "gtid_unlock"        :> St("unlock", {"node_socket_close"}) @@
    "node_socket_close"  :> St("io", {"sst_received"}) @@
    "sst_received"       :> St("provider", {"node_socket_accept", "abort"}) @@
    "abort"              :> St("local", {})

\* sst_donor_thread, with node_store_acquire_state and
\* node_store_release_state
sst_donor_thread_steps ==
    "sst_donor_thread"   :> St("local", {"acquire_lock", "send_state_len"}) @@
    "acquire_lock"       :> St("lock", {"acquire_body"}) @@
    "acquire_body"       :> St("local", {"acquire_unlock"}) @@
    "acquire_unlock"     :> St("unlock", {"send_state_len", "release_lock",
                                          "node_socket_close"}) @@
    "send_state_len"     :> St("io", {"send_state", "release_lock",
                                      "node_socket_close"}) @@
    "send_state"         :> St("io", {"release_lock"}) @@
    "release_lock"       :> St("lock", {"release_body"}) @@
    "release_body"       :> St("local", {"release_unlock", "abort"}) @@
    "release_unlock"     :> St("unlock", {"node_socket_close"}) @@
    "node_socket_close"  :> St("io", {"sst_sent"}) @@
    "sst_sent"           :> St("provider", {"sst_donor_thread"}) @@
    "abort"              :> St("local", {})

\* the statements of a thread
Routine(t) ==
    CASE t = "master" -> node_trx_execute_steps @@ node_store_execute_steps @@
                         node_store_commit_steps
      [] t = "slave" -> worker_slave_steps @@ node_store_commit_steps
      [] t = "joiner" -> sst_joiner_thread_steps
      [] t = "donor" -> sst_donor_thread_steps

\* the statement a thread executes next
Statement(t) == Routine(t)[gtid_mtx.at[t]]

LockUnchanged ==
    UNCHANGED <<cluster, NDEBUG, store, fatal, ws_handle, ev, nodeVars, sst, node>>

\* abort() ends every thread
Aborted == \E t \in StoreThreads : gtid_mtx.at[t] = "abort"

\* pthread_mutex_lock(&store->gtid_mtx)
pthread_mutex_lock(t) ==
    /\ ~Aborted
    /\ Statement(t).kind = "lock"
    /\ gtid_mtx.owner = "none"
    /\ \E pc \in Statement(t).next :
          gtid_mtx' = [owner |-> t, at |-> [gtid_mtx.at EXCEPT ![t] = pc]]
    /\ LockUnchanged

\* pthread_mutex_unlock(&store->gtid_mtx)
pthread_mutex_unlock(t) ==
    /\ ~Aborted
    /\ Statement(t).kind = "unlock"
    /\ \E pc \in Statement(t).next :
          gtid_mtx' = [owner |-> "none", at |-> [gtid_mtx.at EXCEPT ![t] = pc]]
    /\ LockUnchanged

\* a call of the provider, socket I/O, or statements local to the thread
StoreThreadStep(t) ==
    /\ ~Aborted
    /\ Statement(t).kind \in {"provider", "io", "local"}
    /\ \E pc \in Statement(t).next :
          gtid_mtx' = [gtid_mtx EXCEPT !.at[t] = pc]
    /\ LockUnchanged

NextLock ==
    \E t \in StoreThreads :
        \/ pthread_mutex_lock(t)
        \/ pthread_mutex_unlock(t)
        \/ StoreThreadStep(t)

SpecLock == Init /\ [][NextLock]_vars

(***************************************************************************)
(* Two nodes of one cluster (SpecTwin): each node executes local           *)
(* transactions on its own Store; the provider orders what they replicate  *)
(* and the views; each node processes that order at its own pace.  The     *)
(* node a write-set comes from commits the context node_store_execute      *)
(* built, the other node the context node_store_apply makes of the data    *)
(* fragments.  The second node was started with the default write-set      *)
(* size, so its operations are padded on the wire.                         *)
(***************************************************************************)
StoreOf(n) == IF n = "local" THEN store ELSE cluster.peer
FatalOf(n) == IF n = "local" THEN fatal ELSE cluster.peer_fatal

TwinUnchanged ==
    UNCHANGED <<NDEBUG, ws_handle, ev, nodeVars, sst, node, gtid_mtx>>

\* what a step of node n leaves: its Store and its abort
TwinNode(n, st, why, c) ==
    IF n = "local"
    THEN /\ store' = st
         /\ fatal' = why
         /\ cluster' = c
    ELSE /\ cluster' = [c EXCEPT !.peer = st, !.peer_fatal = why]
         /\ UNCHANGED <<store, fatal>>

\* both nodes have processed the first primary view
InitTwin ==
    /\ NDEBUG \in BOOLEAN
    /\ \E cap \in BOOLEAN :
          /\ store = node_store_update_membership(
                         node_store_open(OPT_RECORDS, 0, MaxOps), FirstView(cap)).store
          /\ cluster = [NoCluster EXCEPT
                          !.peer = node_store_update_membership(@, FirstView(cap)).store]
    /\ fatal = "no"
    /\ ws_handle = NewHandle
    /\ ev = NoEv
    /\ provider = IdleProv
    /\ master = IdleWorker
    /\ slave = IdleWorker
    /\ sst = NoSst
    /\ node = NoNode
    /\ gtid_mtx = Unlocked

\* the GTID the provider gives to what it orders next
NextGtid == [uuid |-> ClusterUuid, seqno |-> Len(cluster.log) + 1]

\* the loop of node_trx_execute over node_store_execute from operation i
\* on: ops are the pairs of rand() results
RECURSIVE twin_execute(_, _, _, _)
twin_execute(st, hnd, ops, i) ==
    IF i > Len(ops) THEN [hnd |-> hnd, ret |-> "WSREP_OK"]
    ELSE LET r == node_store_execute(st, hnd, ops[i][1], ops[i][2], TRUE, "WSREP_OK")
         IN  IF r.ret # "WSREP_OK" THEN r
             ELSE twin_execute(st, r.hnd, ops, i + 1)

\* node_trx_execute of node n up to wsrep->certify: the operations are
\* executed on the Store as the node has it, and the provider orders the
\* write-set; one that fails certification only moves the GTID
twin_trx_execute(n, ops, certified) ==
    /\ FatalOf(n) = "no"
    /\ Len(cluster.log) < MaxSeqno
    /\ LET r == twin_execute(StoreOf(n), NewHandle, ops, 1)
       IN  /\ r.ret = "WSREP_OK"
           /\ cluster' = [cluster EXCEPT !.log = Append(@,
                             IF certified
                             THEN [kind |-> "commit", origin |-> n,
                                   trx |-> r.hnd.trx, ws |-> r.hnd.ws,
                                   gtid |-> NextGtid]
                             ELSE [kind |-> "update_gtid", origin |-> n,
                                   trx |-> NoTrx, ws |-> <<>>,
                                   gtid |-> NextGtid])]
    /\ UNCHANGED <<store, fatal>>
    /\ TwinUnchanged

\* the provider orders a primary view
twin_view(members, cap) ==
    /\ Len(cluster.log) < MaxSeqno
    /\ cluster' = [cluster EXCEPT !.log = Append(@,
                      [kind |-> "view", origin |-> "none", trx |-> NoTrx,
                       ws |-> <<>>, gtid |-> NextGtid,
                       view |-> [state_id |-> NextGtid, members |-> members,
                                 cap_snapshot |-> cap]])]
    /\ UNCHANGED <<store, fatal>>
    /\ TwinUnchanged

\* what node n does with an ordered entry: node_store_commit of its own
\* context or of the one node_store_apply makes, node_store_update_gtid,
\* node_store_update_membership
twin_outcome(n, e) ==
    LET a == node_store_apply(StoreOf(n), e.ws, TRUE)
    IN  CASE e.kind = "view" -> node_store_update_membership(StoreOf(n), e.view)
          [] e.kind = "update_gtid" -> node_store_update_gtid(StoreOf(n), e.gtid)
          [] e.kind = "commit" /\ e.origin = n ->
                node_store_commit(StoreOf(n), e.trx, e.gtid)
          [] e.kind = "commit" /\ e.origin # n ->
                IF a.ret = "0" THEN node_store_commit(StoreOf(n), a.trx, e.gtid)
                ELSE Abort(StoreOf(n), a.fatal)

\* node n processes the next entry of the total order
twin_process(n) ==
    /\ FatalOf(n) = "no"
    /\ cluster.pos[n] < Len(cluster.log)
    /\ LET r == twin_outcome(n, cluster.log[cluster.pos[n] + 1])
       IN  TwinNode(n, r.store, r.fatal, [cluster EXCEPT !.pos[n] = @ + 1])
    /\ TwinUnchanged

TwinViews == {<<1, 2, 3>>}
\* the rand() results of the operations of one transaction
TwinOps == UNION {[1..k -> Indices \X Indices] : k \in 1..MaxOps}

NextTwin ==
    \/ \E n \in Nodes, ops \in TwinOps, c \in BOOLEAN : twin_trx_execute(n, ops, c)
    \/ \E m \in TwinViews, cap \in BOOLEAN : twin_view(m, cap)
    \/ \E n \in Nodes : twin_process(n)

SpecTwin == InitTwin /\ [][NextTwin]_vars

(***************************************************************************)
(* The process (SpecLife): main() from its first call to its return, the   *)
(* SYNCED latch of the provider adapter and the threads of the two worker  *)
(* pools.  main() and every thread take their steps in any order; a step   *)
(* is what the thread does between two points where another thread can     *)
(* see or change what it shares (the latch, the provider handle, the      *)
(* Store).  node_trx_execute is taken by what it returns to the worker.    *)
(***************************************************************************)
LifeStatuses == {"WSREP_OK", "WSREP_TRX_FAIL", "WSREP_BF_ABORT",
                 "WSREP_CONN_FAIL", "WSREP_NODE_FAIL"}
\* what node_store_execute returns to node_trx_execute: 0, -ENOMEM,
\* WSREP_TRX_FAIL for a read view that moved, or the status of the provider
\* call that failed
ExecOutcomes == {"0", "-ENOMEM", "WSREP_TRX_FAIL", "WSREP_CONN_FAIL"}
\* what wsrep_load / wsrep->init do in node_wsrep_init
InitOutcomes == {"ok", "load_failed", "init_failed"}
\* what the write-set calls (assign_read_view, append_key, append_data) of a
\* disconnected provider return: the header leaves it to the provider
ClosedStatuses == {"WSREP_OK", "WSREP_CONN_FAIL"}

Running(pc) == pc \notin {"none", "exited"}
MastersRunning == {w \in 1..NMasters : Running(node.masters[w].pc)}
SlavesRunning == {w \in 1..NSlaves : Running(node.slaves[w])}
\* the process is alive: main() has not returned and nothing aborted
ProcessAlive == fatal = "no" /\ node.pc # "exited"

Step(n, name) == [n EXCEPT !.step = name]
LifeUnchanged ==
    UNCHANGED <<cluster, gtid_mtx, NDEBUG, store, ws_handle, ev, nodeVars, sst>>

\* node_wsrep_close: frees the provider; the debug build asserts that the
\* view is empty (memb_num: wsrep->view.memb_num at the time)
Goto(r, pc) ==
    IF r.fatal = "no" THEN [r.node EXCEPT !.pc = pc] ELSE r.node
node_wsrep_close(n, memb_num) ==
    IF ~NDEBUG /\ memb_num # 0
    THEN [node |-> n, fatal |-> "assert"]
    ELSE [node |-> [n EXCEPT !.conn = "freed"], fatal |-> "no"]

\* main(): node_options_read; an error ends the process
node_options_read(err, masters) ==
    /\ ProcessAlive
    /\ node.pc = "node_options_read"
    /\ node' = Step([node EXCEPT !.opts_masters = masters,
                                 !.pc = IF err = 0 THEN "node_store_open"
                                        ELSE "exited"],
                    "node_options_read")
    /\ UNCHANGED fatal
    /\ LifeUnchanged

\* main(): node_store_open; without a Store main() returns 1
main_store_open(ok) ==
    /\ ProcessAlive
    /\ node.pc = "node_store_open"
    /\ node' = Step(IF ok THEN [node EXCEPT !.store = "open",
                                            !.pc = "node_wsrep_init"]
                    ELSE [node EXCEPT !.pc = "exited"],
                    "node_store_open")
    /\ UNCHANGED fatal
    /\ LifeUnchanged

\* node_wsrep_init: loads and initializes the provider; when wsrep->init
\* fails the provider is freed by node_wsrep_close; on failure main()
\* returns 1
node_wsrep_init(outcome) ==
    /\ ProcessAlive
    /\ node.pc = "node_wsrep_init"
    /\ LET closed == node_wsrep_close(node, 0)
       IN  CASE outcome = "ok" ->
                    /\ node' = Step([node EXCEPT !.conn = "initialized",
                                                 !.pc = "node_wsrep_connect"],
                                    "node_wsrep_init")
                    /\ UNCHANGED fatal
             [] outcome = "load_failed" ->
                    /\ node' = Step([node EXCEPT !.pc = "exited"],
                                    "node_wsrep_init")
                    /\ UNCHANGED fatal
             [] OTHER ->
                    /\ node' = Step(Goto(closed, "exited"), "node_wsrep_init")
                    /\ fatal' = closed.fatal
    /\ LifeUnchanged

\* node_wsrep_connect: on failure the provider is freed and main() returns 1
node_wsrep_connect(err) ==
    /\ ProcessAlive
    /\ node.pc = "node_wsrep_connect"
    /\ IF err = "WSREP_OK"
       THEN /\ node' = Step([node EXCEPT !.conn = "connected",
                                         !.pc = "start_slaves"],
                            "node_wsrep_connect")
            /\ UNCHANGED fatal
       ELSE LET closed == node_wsrep_close(node, 0)
            IN  /\ node' = Step(Goto(closed, "exited"), "node_wsrep_connect")
                /\ fatal' = closed.fatal
    /\ LifeUnchanged

\* node_worker_start: creates the threads of a pool of the given size one
\* by one (created: how many pthread_create calls succeeded, 0 as well when
\* malloc failed); returns the number of threads of the pool, 0 for NULL
node_worker_start(size, created) ==
    IF size = 0 THEN 0 ELSE created

\* main(): the slave pool; without one main() returns 1
start_slaves(created) ==
    /\ ProcessAlive
    /\ node.pc = "start_slaves"
    /\ LET n == node_worker_start(NSlaves, created)
       IN  node' = Step([node EXCEPT
                            !.slaves = [w \in 1..NSlaves |->
                                           IF w <= n THEN "recv" ELSE "none"],
                            !.pc = IF n = 0 THEN "exited"
                                   ELSE "node_wsrep_wait_synced"],
                        "node_worker_start")
    /\ UNCHANGED fatal
    /\ LifeUnchanged

node_wsrep_wait_synced_nonzero(value) == value # 0

\* node_wsrep_wait_synced: what it returns once the latch is not 0
node_wsrep_wait_synced(value) == value > 0

\* main(): waits for the latch; FALSE makes main() return 1
main_wait_synced ==
    /\ ProcessAlive
    /\ node.pc = "node_wsrep_wait_synced"
    /\ node.synced # 0
    /\ node' = Step([node EXCEPT !.pc = IF node_wsrep_wait_synced(node.synced)
                                        THEN "start_masters" ELSE "exited"],
                    "node_wsrep_wait_synced")
    /\ UNCHANGED fatal
    /\ LifeUnchanged

\* main(): the master pool; NULL is an error only if masters were asked for
start_masters(created) ==
    /\ ProcessAlive
    /\ node.pc = "start_masters"
    /\ created <= node.opts_masters
    /\ LET n == node_worker_start(node.opts_masters, created)
       IN  node' = Step([node EXCEPT
                            !.masters = [w \in 1..NMasters |->
                                            IF w <= n
                                            THEN [NoThread EXCEPT
                                                     !.pc = "wait_synced"]
                                            ELSE NoThread],
                            !.pc = IF node.opts_masters > 0 /\ n = 0
                                   THEN "exited" ELSE "node_stats_loop"],
                        "node_worker_start")
    /\ UNCHANGED fatal
    /\ LifeUnchanged

\* main(): node_stats_loop returns when the process is told to terminate
node_stats_loop ==
    /\ ProcessAlive
    /\ node.pc = "node_stats_loop"
    /\ node' = Step([node EXCEPT !.pc = "node_wsrep_disconnect"],
                    "node_stats_loop")
    /\ UNCHANGED fatal
    /\ LifeUnchanged

\* node_wsrep_disconnect, under the mutex of the latch: the latch becomes -1
node_wsrep_disconnect_latch ==
    /\ ProcessAlive
    /\ node.pc = "node_wsrep_disconnect"
    /\ node' = Step([node EXCEPT !.synced = -1, !.pc = "disconnect"],
                    "node_wsrep_disconnect")
    /\ UNCHANGED fatal
    /\ LifeUnchanged

\* node_wsrep_disconnect, after the mutex: the provider is disconnected; if
\* that fails the process is aborted (closed: what the write-set calls of
\* this provider return from now on)
node_wsrep_disconnect(err, closed) ==
    /\ ProcessAlive
    /\ node.pc = "disconnect"
    /\ IF err = "WSREP_OK"
       THEN /\ node' = Step([node EXCEPT !.conn = "disconnected",
                                         !.closed_status = closed,
                                         !.pc = "stop_masters"],
                            "disconnect")
            /\ UNCHANGED fatal
       ELSE /\ node' = Step(node, "disconnect")
            /\ fatal' = "node_wsrep_disconnect"
    /\ LifeUnchanged

node_worker_stop_detached(running) == TRUE

\* node_worker_stop: pthread_join returns for a thread that has returned;
\* the function returns when every thread of the pool has been joined
node_worker_stop(running) == running = {}

\* main(): node_worker_stop(master_pool)
stop_masters ==
    /\ ProcessAlive
    /\ node.pc = "stop_masters"
    /\ node_worker_stop(MastersRunning)
    /\ node' = Step([node EXCEPT !.pc = "stop_slaves"], "stop_masters")
    /\ UNCHANGED fatal
    /\ LifeUnchanged

\* main(): node_worker_stop(slave_pool)
stop_slaves ==
    /\ ProcessAlive
    /\ node.pc = "stop_slaves"
    /\ node_worker_stop(SlavesRunning)
    /\ node' = Step([node EXCEPT !.pc = "node_wsrep_close"], "stop_slaves")
    /\ UNCHANGED fatal
    /\ LifeUnchanged

\* main(): node_wsrep_close
main_wsrep_close(memb_num) ==
    /\ ProcessAlive
    /\ node.pc = "node_wsrep_close"
    /\ LET closed == node_wsrep_close(node, memb_num)
       IN  /\ node' = Step(Goto(closed, "node_store_close"), "node_wsrep_close")
           /\ fatal' = closed.fatal
    /\ LifeUnchanged

\* main(): node_store_close, then return 0
main_store_close ==
    /\ ProcessAlive
    /\ node.pc = "node_store_close"
    /\ node' = Step([node EXCEPT !.store = "closed", !.pc = "exited"],
                    "node_store_close")
    /\ UNCHANGED fatal
    /\ LifeUnchanged

wsrep_synced_cb_unconditional ==
    /\ ProcessAlive
    /\ node.conn \in {"connected", "disconnected"}
    /\ node' = Step([node EXCEPT !.synced = 1, !.ever1 = TRUE],
                    "wsrep_synced_cb")
    /\ UNCHANGED fatal
    /\ LifeUnchanged

\* wsrep_synced_cb, under the mutex of the latch: the provider calls it
\* whenever the node has caught up with the cluster
wsrep_synced_cb ==
    /\ ProcessAlive
    /\ node.conn \in {"connected", "disconnected"}
    /\ node' = Step(IF node.synced = 0
                    THEN [node EXCEPT !.synced = 1, !.ever1 = TRUE]
                    ELSE node,
                    "wsrep_synced_cb")
    /\ UNCHANGED fatal
    /\ LifeUnchanged

\* worker_master, outer loop: node_wsrep_wait_synced returns once the latch
\* is not 0; FALSE ends the thread
worker_master_wait(w) ==
    /\ ProcessAlive
    /\ node.masters[w].pc = "wait_synced"
    /\ node.synced # 0
    /\ node' = Step([node EXCEPT
                        !.masters[w].seen = node.synced,
                        !.masters[w].pc =
                            IF node_wsrep_wait_synced(node.synced)
                            THEN "trx" ELSE "exited"],
                    "worker_master")
    /\ UNCHANGED fatal
    /\ LifeUnchanged

\* node_trx_execute: what it returns, given what node_store_execute returned,
\* the status of certify and that of the commit-order calls
node_trx_execute_ret(exec, cert, order) ==
    IF exec # "0" THEN "WSREP_TRX_FAIL"
    ELSE IF order # "WSREP_OK" THEN order
    ELSE cert

\* worker_master, inner loop: node_trx_execute returns.  A connected
\* provider can return anything; a disconnected one does not certify, and
\* its write-set calls return closed_status
worker_master_execute(w, exec, cert, order) ==
    /\ ProcessAlive
    /\ node.masters[w].pc = "trx"
    /\ exec \in {"-ENOMEM", "WSREP_TRX_FAIL"} /\ node.conn = "disconnected"
          => node.soft < MaxSoft
    /\ node.conn = "disconnected" =>
          /\ exec \in {"-ENOMEM", "WSREP_TRX_FAIL"}
                \/ exec = (IF node.closed_status = "WSREP_OK" THEN "0"
                           ELSE node.closed_status)
          /\ cert \in {"WSREP_CONN_FAIL", "WSREP_NODE_FAIL"}
          /\ order = "WSREP_OK"
    /\ node' = Step([node EXCEPT
                        !.masters[w].ret = node_trx_execute_ret(exec, cert, order),
                        !.masters[w].pc = "loop",
                        !.soft = IF node.conn = "disconnected"
                                    /\ exec \in {"-ENOMEM", "WSREP_TRX_FAIL"}
                                 THEN @ + 1 ELSE @],
                    "node_trx_execute")
    /\ UNCHANGED fatal
    /\ LifeUnchanged

\* a worker_master that treats WSREP_CONN_FAIL like WSREP_TRX_FAIL
worker_master_loop_no_wait(w) ==
    /\ ProcessAlive
    /\ node.masters[w].pc = "loop"
    /\ node' = Step([node EXCEPT
                        !.masters[w].pc =
                            IF node.masters[w].ret \in {"WSREP_OK", "WSREP_TRX_FAIL",
                                                        "WSREP_CONN_FAIL"}
                            THEN "trx"
                            ELSE "exited"],
                    "worker_master")
    /\ UNCHANGED fatal
    /\ LifeUnchanged

\* worker_master, the conditions of the two loops: WSREP_OK and
\* WSREP_TRX_FAIL call node_trx_execute again, WSREP_CONN_FAIL goes back to
\* node_wsrep_wait_synced, anything else ends the thread
worker_master_loop(w) ==
    /\ ProcessAlive
    /\ node.masters[w].pc = "loop"
    /\ node' = Step([node EXCEPT
                        !.masters[w].pc =
                            IF node.masters[w].ret \in {"WSREP_OK", "WSREP_TRX_FAIL"}
                            THEN "trx"
                            ELSE IF node.masters[w].ret = "WSREP_CONN_FAIL"
                            THEN "wait_synced"
                            ELSE "exited"],
                    "worker_master")
    /\ UNCHANGED fatal
    /\ LifeUnchanged

\* worker_slave: wsrep->recv returns, with WSREP_OK once the provider is
\* disconnected, with an error at any time
worker_slave(w, ret) ==
    /\ ProcessAlive
    /\ node.slaves[w] = "recv"
    /\ ret = "WSREP_OK" => node.conn = "disconnected"
    /\ node' = Step([node EXCEPT !.slaves[w] = "exited"], "worker_slave")
    /\ UNCHANGED fatal
    /\ LifeUnchanged

MainStep ==
    \/ \E err \in {0, 1}, m \in 0..NMasters : node_options_read(err, m)
    \/ \E ok \in BOOLEAN : main_store_open(ok)
    \/ \E o \in InitOutcomes : node_wsrep_init(o)
    \/ \E err \in SstStatuses : node_wsrep_connect(err)
    \/ \E n \in 0..NSlaves : start_slaves(n)
    \/ main_wait_synced
    \/ \E n \in 0..NMasters : start_masters(n)
    \/ node_stats_loop
    \/ node_wsrep_disconnect_latch
    \/ \E err \in SstStatuses, c \in ClosedStatuses : node_wsrep_disconnect(err, c)
    \/ stop_masters
    \/ stop_slaves
    \/ \E m \in {0, 1} : main_wsrep_close(m)
    \/ main_store_close

MasterStep(w) ==
    \/ worker_master_wait(w)
    \/ \E e \in ExecOutcomes, c \in LifeStatuses, o \in OrderStatuses :
          worker_master_execute(w, e, c, o)
    \/ worker_master_loop(w)

SlaveStep(w) == \E r \in SstStatuses : worker_slave(w, r)

NextLife ==
    \/ MainStep
    \/ wsrep_synced_cb
    \/ \E w \in 1..NMasters : MasterStep(w)
    \/ \E w \in 1..NSlaves : SlaveStep(w)

SpecLife == InitStore /\ [][NextLife]_vars

\* the scheduler lets every thread that can take a step take one
SpecLifeFair ==
    /\ SpecLife
    /\ WF_vars(MainStep)
    /\ \A w \in 1..NMasters : WF_vars(MasterStep(w))
    /\ \A w \in 1..NSlaves : WF_vars(SlaveStep(w))

(***************************************************************************)
(* Properties of the Store (SpecStore)                                     *)
(***************************************************************************)
\* C1: every node_store_commit / node_store_update_gtid that returns leaves
\* the Store GTID with the seqno one larger and the uuid it had.
C1_MonotoneGtid ==
    [][(ev'.op \in {"commit", "update_gtid"} /\ fatal' = "no")
        => /\ store'.gtid.seqno = store.gtid.seqno + 1
           /\ store'.gtid.uuid = store.gtid.uuid]_vars

\* an update_gtid returned and the Store GTID has advanced twice
C1_Witness ==
    ev.op = "update_gtid" /\ ev.res = "ok" /\ fatal = "no" /\ store.gtid.seqno = 2

\* C2: node_store_commit or node_store_update_gtid called with a seqno other
\* than the Store's seqno + 1 ends the process; it does not return and no
\* record is written.
C2_OutOfOrderFatal ==
    [][\A g \in Gtids :
          (g.seqno # store.gtid.seqno + 1 /\ (SCommit(g) \/ SUpdateGtid(g)))
          => (fatal' # "no" /\ store'.records = store.records)]_vars

\* a commit was called out of order and the process was aborted for it
C2_Witness ==
    ev.op = "commit" /\ ev.res = "fatal" /\ fatal = "Out of order commit"

\* C3: no record has a version larger than the Store GTID's seqno.
C3_Conservation ==
    \A i \in DOMAIN store.records : store.records[i].version <= store.gtid.seqno

\* a snapshot was installed and a record carries the version of the Store GTID
C3_Witness ==
    /\ ev.op = "init_state" /\ ev.res = "ok"
    /\ \E i \in DOMAIN store.records :
           store.records[i].version = store.gtid.seqno /\ store.gtid.seqno > 0

\* the last operation of trx that writes record i
LastOpTo(trx, i) ==
    CHOOSE k \in 1..Len(trx.ops) :
        /\ trx.ops[k].idx_to = i
        /\ \A k2 \in (k + 1)..Len(trx.ops) : trx.ops[k2].idx_to # i

\* C9: a node_store_commit with GTID g that succeeds leaves {g.seqno,
\* op.new_value} in records[op.idx_to] for every operation (the later one
\* where two write the same record), every other record as it was, and the
\* Store GTID at seqno g.seqno.
C9_CommitWrites ==
    [][\A g \in Gtids :
          (SCommit(g) /\ ev'.res = "ok")
          => /\ store'.gtid.seqno = g.seqno
             /\ \A i \in DOMAIN store.records :
                    IF \E k \in 1..Len(ws_handle.trx.ops) :
                           ws_handle.trx.ops[k].idx_to = i
                    THEN store'.records[i] =
                             record_t(g.seqno,
                                      ws_handle.trx.ops[LastOpTo(ws_handle.trx, i)].new_value)
                    ELSE store'.records[i] = store.records[i]]_vars

\* a transaction of two operations on different records was committed
C9_Witness ==
    /\ ev.op = "commit" /\ ev.res = "ok"
    /\ \A i \in DOMAIN store.records : store.records[i].version = store.gtid.seqno
    /\ store.records_num > 1

\* every operation of trx still finds the two records it read
StillEqual(st, trx) ==
    \A k \in 1..Len(trx.ops) :
        /\ store_record_equal(trx.ops[k].rec_from, st.records[trx.ops[k].idx_from])
        /\ store_record_equal(trx.ops[k].rec_to, st.records[trx.ops[k].idx_to])

\* C10: when the Store verifies read views, a commit of a transaction one
\* of whose operations no longer finds the records it read writes nothing:
\* the failure is counted, or the process is aborted.
C10_ReadViewVerified ==
    [][\A g \in Gtids :
          (SCommit(g) /\ check_read_view_snapshot(store) /\
           ~StillEqual(store, ws_handle.trx))
          => /\ store'.records = store.records
             /\ \/ fatal' # "no"
                \/ store'.read_view_fails = store.read_view_fails + 1]_vars

\* a commit was rejected and counted, the records are those of the donor
C10_Witness ==
    /\ ev.op = "commit" /\ ev.res = "fail" /\ fatal = "no"
    /\ store.read_view_fails = 1

\* the write-set g is the next one of the Store's epoch
InOrder(st, g) == g.uuid = st.gtid.uuid /\ g.seqno = st.gtid.seqno + 1

\* C11: a node_store_commit whose read-view verification fails for some
\* operation while the provider has no snapshot support modifies no record,
\* counts exactly one read-view failure and does not end the process.
C11_VerificationFailureRollsBack ==
    [][\A g \in Gtids :
          (SCommit(g) /\ InOrder(store, g) /\ ~store.read_view_support /\
           ~StillEqual(store, ws_handle.trx))
          => /\ store'.records = store.records
             /\ store'.read_view_fails = store.read_view_fails + 1
             /\ fatal' = "no"]_vars

\* C19: node_store_commit or node_store_update_gtid called with a write-set
\* GTID whose uuid is not the Store's ends the process; the Store GTID does
\* not advance on a write-set of another uuid.
C19_ForeignUuidFatal ==
    [][\A g \in Gtids :
          (g.uuid # store.gtid.uuid /\ (SCommit(g) \/ SUpdateGtid(g)))
          => fatal' # "no"]_vars

\* C18 as stated: every membership change applied to the Store advances the
\* Store seqno by exactly 1, and at that moment no write-set with a larger
\* seqno has been applied.
C18_ViewAdvancesByOne ==
    [][(ev'.op = "update_membership" /\ fatal' = "no")
        => /\ store'.gtid.seqno = store.gtid.seqno + 1
           /\ \A i \in DOMAIN store'.records :
                  store'.records[i].version < store'.gtid.seqno]_vars

\* C18 (amended): every membership change applied to a Store whose GTID is
\* defined advances the Store seqno by exactly 1 within the epoch, and the
\* one applied to a Store with undefined GTID sets the GTID to the view's
\* state id; in both cases no write-set with the view's seqno or a larger
\* one has been applied when the view is, and every write-set applied
\* afterwards takes the next seqno.
C18_ViewInTotalOrder ==
    [][/\ (ev'.op = "update_membership" /\ fatal' = "no")
             => /\ store.gtid # WSREP_GTID_UNDEFINED
                      => /\ store'.gtid.seqno = store.gtid.seqno + 1
                         /\ store'.gtid.uuid = store.gtid.uuid
                /\ \A i \in DOMAIN store'.records :
                       store'.records[i].version < store'.gtid.seqno
       /\ (ev'.op \in {"commit", "update_gtid"} /\ fatal' = "no")
             => store'.gtid.seqno = store.gtid.seqno + 1]_vars

\* a view was applied at seqno 2 to a Store with a record written by the
\* write-set of seqno 1
C18_Witness ==
    /\ ev.op = "update_membership" /\ ev.res = "ok" /\ fatal = "no"
    /\ store.gtid.seqno = 2
    /\ \E i \in DOMAIN store.records : store.records[i].version = 1

(***************************************************************************)
(* Properties of snapshots (SpecSnap, SpecPin)                             *)
(***************************************************************************)
\* C13 as stated: installing the snapshot acquired of a Store state S
\* succeeds and leaves the installing Store equal to S over records,
\* members, GTID and read-view-support flag.
C13_SnapshotRoundTrip ==
    [][\A j \in Junk :
          SJoinerInitState(j)
          => (ev'.res = "ok" /\ StateOf(sst'.joiner) = sst.of)]_vars

\* the snapshot's GTID is behind the GTID of the Store st in st's epoch
InThePast(st, gtid) == gtid.uuid = st.gtid.uuid /\ gtid.seqno < st.gtid.seqno

\* C13 (amended): installing the snapshot acquired of a Store state S that
\* has at least two members, into a Store whose GTID is not ahead of S's
\* GTID in the same epoch, succeeds and leaves the installing Store equal
\* to S over records, members, GTID and read-view-support flag.
C13_SnapshotRoundTripOfCluster ==
    [][\A j \in Junk :
          (SJoinerInitState(j) /\ sst.of.members_num >= 2 /\
           ~InThePast(sst.joiner, sst.of.gtid))
          => (ev'.res = "ok" /\ StateOf(sst'.joiner) = sst.of)]_vars

\* the joining node has installed a snapshot of a two-member state with
\* read-view support that the donor has since left behind
C13_Witness ==
    /\ ev.op = "joiner_init_state" /\ ev.res = "ok"
    /\ StateOf(sst.joiner) = sst.of
    /\ sst.of.read_view_support /\ sst.of.members_num = 2
    /\ sst.of.gtid.seqno > 0
    /\ StateOf(store) # sst.of

\* C14 as stated: node_store_acquire_state called while a snapshot is
\* pinned returns a re-entry error and leaves the pinned snapshot in place,
\* so that there is never more than one acquired snapshot.
C14_ReentryError ==
    [][\A a \in Allocs :
          (SAcquireState(a) /\ store.snapshot # NoSnapshot)
          => /\ ev'.res = "EAGAIN" /\ fatal' = "no"
             /\ store'.snapshot = store.snapshot]_vars

\* C14 (amended): a snapshot is handed out only when none is pinned;
\* node_store_acquire_state called while a snapshot is pinned leaves the
\* pinned snapshot in place and hands out no other: it returns the re-entry
\* error -EAGAIN in a build with NDEBUG and ends the process at assert(0)
\* in a build with assertions.
C14_SnapshotUniqueness ==
    [][\A a \in Allocs :
          SAcquireState(a)
          => IF store.snapshot = NoSnapshot
             THEN ev'.res \in {"ok", "ENOMEM"}
             ELSE /\ store'.snapshot = store.snapshot
                  /\ sst'.of = sst.of
                  /\ IF NDEBUG
                     THEN ev'.res = "EAGAIN" /\ fatal' = "no"
                     ELSE ev'.res = "fatal" /\ fatal' = "assert snapshot"]_vars

\* an acquire was refused with -EAGAIN and the snapshot acquired of an
\* earlier state of the Store is still pinned
C14_Witness ==
    /\ ev.op = "acquire_state" /\ ev.res = "EAGAIN" /\ fatal = "no"
    /\ store.snapshot # NoSnapshot
    /\ sst.of # NoSnapshot /\ StateOf(store) # sst.of

\* C15: a successful node_store_acquire_state pins the serialized form of
\* the one Store state it was called in and changes nothing else of the
\* Store; as long as a snapshot is pinned it is that serialized form,
\* whatever node_store_commit, node_store_update_gtid,
\* node_store_update_membership or node_store_init_state have done to the
\* Store since; only node_store_release_state takes it away.
C15_SnapshotImmutable ==
    [][/\ \A a \in Allocs :
             (SAcquireState(a) /\ ev'.res = "ok")
             => /\ store'.snapshot = snapshot_of(store)
                /\ StateOf(store') = StateOf(store)
       /\ store'.snapshot # NoSnapshot
             => /\ sst'.of # NoSnapshot
                /\ store'.snapshot = snapshot_of(sst'.of)
                /\ store.snapshot # NoSnapshot =>
                       (store'.snapshot = store.snapshot /\ sst'.of = sst.of)
       /\ (store.snapshot # NoSnapshot /\ store'.snapshot = NoSnapshot)
             => SReleaseState]_vars

\* a transaction committed while a snapshot was pinned: the snapshot still
\* holds the records as they were before the commit
C15_Witness ==
    /\ ev.op = "commit" /\ ev.res = "ok" /\ fatal = "no"
    /\ store.snapshot # NoSnapshot
    /\ store.snapshot = snapshot_of(sst.of)
    /\ sst.of.records # store.records
    /\ sst.of.gtid.seqno < store.gtid.seqno

\* everything of the Store st that node_store_init_state leaves alone
RestOf(st) == [st EXCEPT !.gtid = 0, !.members = 0, !.members_num = 0,
                         !.records = 0, !.records_num = 0,
                         !.read_view_support = 0]

\* C16: node_store_init_state does not accept a snapshot whose GTID lies in
\* the Store's epoch behind the Store's seqno; whenever it rejects (snapshot
\* too short, no GTID, bad membership, missing records, GTID in the past)
\* the Store is as it was; when it succeeds GTID, members, records and
\* read-view flag are those of the snapshot, replaced in the one step, and
\* nothing else of the Store changes.
C16_InitStateAllOrNothing ==
    [][/\ ev'.op = "init_state"
             => /\ ev'.res = "fail" => store' = store
                /\ ev'.res = "ok"
                      => /\ ~InThePast(store, store'.gtid)
                         /\ RestOf(store') = RestOf(store)
                         /\ \E d \in Donors :
                                /\ store'.gtid = d.gtid
                                /\ store'.members = d.members
                                /\ store'.members_num = d.members_num
                                /\ \/ StateOf(store') = StateOf(d)
                                   \/ store'.records_num = 0
       /\ ev'.op = "joiner_init_state"
             => /\ InThePast(sst.joiner, sst.of.gtid) => ev'.res = "fail"
                /\ ev'.res = "fail" => sst'.joiner = sst.joiner
                /\ ev'.res = "ok"
                      => /\ RestOf(sst'.joiner) = RestOf(sst.joiner)
                         /\ StateOf(sst'.joiner) = sst.of]_vars

\* the joining node, which had installed a snapshot before, has rejected a
\* snapshot of its own epoch with a smaller seqno and kept what it had
C16_Witness ==
    /\ ev.op = "joiner_init_state" /\ ev.res = "fail"
    /\ sst.of # NoSnapshot /\ sst.of.members_num >= 2
    /\ sst.joiner.members_num >= 2
    /\ InThePast(sst.joiner, sst.of.gtid)

(***************************************************************************)
(* Properties of views (SpecSnap)                                          *)
(***************************************************************************)
\* C17: node_store_update_membership returns only for a view that continues
\* the Store's epoch (the Store's uuid, the Store's seqno + 1) or when the
\* Store GTID is undefined (any uuid, any seqno), and then the Store GTID
\* is the view's state id; for every other view it ends the process and
\* leaves the Store as it was.
C17_ViewContinuesOrInitializes ==
    [][ev'.op = "update_membership"
        => \A v \in AllViews :
              SUpdateMembership(v)
              => IF InOrder(store, v.state_id) \/ store.gtid = WSREP_GTID_UNDEFINED
                 THEN /\ fatal' = "no"
                      /\ store'.gtid = v.state_id
                      /\ store'.members = v.members
                 ELSE /\ fatal' # "no"
                      /\ store' = store]_vars

\* a view has continued the epoch of a Store whose snapshot was acquired one
\* seqno earlier with other members
C17_Witness ==
    /\ ev.op = "update_membership" /\ ev.res = "ok" /\ fatal = "no"
    /\ sst.of # NoSnapshot
    /\ InOrder(sst.of, store.gtid)
    /\ sst.of.members # store.members

(***************************************************************************)
(* Properties of the transaction engine (Spec)                             *)
(***************************************************************************)
\* the commit-order calls of worker w pair up: it has left what it entered,
\* with the same meta, nothing else, and all of it once it has returned
Paired(w) ==
    /\ Len(w.entered) <= 1
    /\ Len(w.left) <= Len(w.entered)
    /\ w.left = SubSeq(w.entered, 1, Len(w.left))
    /\ w.pc = "idle" => w.left = w.entered

\* C4: in node_trx_execute and in node_trx_apply, a transaction whose
\* commit_order_enter succeeded calls commit_order_leave exactly once, with
\* the same meta, and commit_order_leave is not called without a successful
\* commit_order_enter before it.
C4_CommitOrderPairing == Paired(master) /\ Paired(slave)

\* both workers have returned from a call in which they entered and left
C4_Witness ==
    /\ master.pc = "idle" /\ Len(master.entered) = 1 /\ master.left = master.entered
    /\ slave.pc = "idle" /\ Len(slave.entered) = 1 /\ slave.left = slave.entered

\* node_trx_execute has returned and the process lives
Returned == master.pc = "idle" /\ fatal = "no"

\* C5: when certify returned WSREP_BF_ABORT with a seqno > 0, then after
\* node_trx_execute has returned it has advanced the Store GTID by exactly
\* 1 and written no record.
C5_BfAbortConsumesSeqno ==
    (Returned /\ master.cert = "WSREP_BF_ABORT" /\ master.meta.seqno > 0)
    => (master.adv = 1 /\ master.writes = 0)

\* C6: when certify returned WSREP_TRX_FAIL with a seqno s > 0, then after
\* node_trx_execute has returned it has advanced the Store GTID by exactly
\* 1 (to s), changed no record and counted no read-view failure.
C6_CertFailureConsumesSeqno ==
    /\ (master.pc = "leave" /\ master.cert = "WSREP_TRX_FAIL")
       => store.gtid.seqno = master.meta.seqno
    /\ (Returned /\ master.cert = "WSREP_TRX_FAIL" /\ master.meta.seqno > 0)
       => (master.adv = 1 /\ master.writes = 0 /\ master.fails = 0)

\* C7: whatever status certify returned, when the meta it returned holds a
\* valid GTID, node_trx_execute calls commit_order_enter with that meta.
C7_OrderedEntersCommitOrder ==
    (master.pc \in {"ordered", "leave", "idle"} /\ master.meta.seqno > 0)
    => master.enter_calls = <<master.meta>>

\* certify failed the connection but had ordered the write-set, and
\* node_trx_execute went through the commit order with it
C7_Witness ==
    /\ Returned /\ master.cert = "WSREP_CONN_FAIL" /\ master.meta.seqno > 0
    /\ master.enter_calls = <<master.meta>> /\ master.left = <<master.meta>>

\* C8: when certify failed and did not order the write-set, node_trx_execute
\* rolls the transaction back, changes neither GTID, records nor members of
\* the Store and calls neither commit_order_enter nor commit_order_leave.
C8_UnorderedFailureRollsBack ==
    (Returned /\ master.cert # "WSREP_OK" /\ master.meta.seqno <= 0)
    => /\ master.rollbacks = 1 /\ ws_handle.trx = NoTrx
       /\ master.adv = 0 /\ master.writes = 0 /\ master.memb = 0
       /\ master.enter_calls = <<>> /\ master.left = <<>>

\* certification failed without a seqno and the transaction was rolled back
C8_Witness ==
    /\ Returned /\ master.cert = "WSREP_TRX_FAIL"
    /\ master.meta = WSREP_GTID_UNDEFINED /\ master.rollbacks = 1

\* node_trx_execute is about to commit a certified transaction one of whose
\* operations no longer finds the records it read, and the provider has no
\* snapshot support
ReadViewMoved ==
    /\ node_trx_execute_commit
    /\ master.cert = "WSREP_OK"
    /\ ~store.read_view_support
    /\ ~StillEqual(store, ws_handle.trx)

\* C12 as stated: the local transaction whose read view a remote write-set
\* has moved is rejected by the Store's verification and counted, no record
\* is written, the process lives and the Store GTID seqno stays where the
\* remote write-set left it.
C12_ReadViewMovedKeepsSeqno ==
    [][ReadViewMoved
        => /\ store'.records = store.records
           /\ store'.read_view_fails = store.read_view_fails + 1
           /\ ws_handle'.trx = NoTrx
           /\ fatal' = "no"
           /\ store'.gtid.seqno = store.gtid.seqno]_vars

\* C12 (amended): the Store verifies only a transaction the provider has
\* certified and ordered, so the local write-set has a seqno and the commit
\* consumes it: the Store GTID seqno advances by 1 to the local write-set's
\* seqno and no record is written; a build with NDEBUG counts one read-view
\* failure and frees the transaction, a build with assertions ends the
\* process at the assertion on the record's version.
C12_ReadViewMovedConsumesSeqno ==
    [][ReadViewMoved
        => /\ store'.records = store.records
           /\ store'.gtid.seqno = store.gtid.seqno + 1
           /\ store'.gtid.seqno = master.meta.seqno
           /\ IF NDEBUG
              THEN /\ store'.read_view_fails = store.read_view_fails + 1
                   /\ ws_handle'.trx = NoTrx
                   /\ fatal' = "no"
              ELSE /\ store'.read_view_fails = store.read_view_fails
                   /\ fatal' = "assert read view"]_vars

\* the slave committed a remote write-set at seqno 1, the master's commit at
\* seqno 2 was rejected by the verification and counted
C12_Witness ==
    /\ master.pc = "leave" /\ master.cert = "WSREP_OK" /\ fatal = "no"
    /\ master.fails = 1 /\ master.adv = 1 /\ master.writes = 0
    /\ store.gtid.seqno = master.meta.seqno /\ master.meta.seqno = 2
    /\ ~store.read_view_support

(***************************************************************************)
(* SpecSst properties                                                      *)
(***************************************************************************)
\* C20 as stated: the provider is notified exactly once per SST: once a
\* request callback has returned and the joiner side has come to rest there
\* has been exactly one sst_received call, and once a donate callback has
\* returned and the donor side has come to rest exactly one sst_sent call,
\* whether the callback succeeded or failed
C20_NotifiedOncePerCallback ==
    /\ sst.jpc \in {"done", "refused"} => sst.jcalls = 1
    /\ sst.dpc \in {"done", "refused"} => sst.dcalls = 1

\* C20 amended: the provider is notified exactly once per SST thread: after
\* a request callback sst_received is called once, at the end of the joiner
\* thread and on each of its paths, and not at all when the callback has
\* returned WSREP_CB_FAILURE without starting the thread; after a donate
\* callback sst_sent is called once, at the end of the donor thread, and not
\* at all when the callback has returned WSREP_CB_FAILURE; the donor thread
\* stops short of its end only in the assertion of node_store_release_state,
\* in a debug build, when node_store_acquire_state has failed and the
\* state_len it left unassigned is read as non-zero
C20_NotifiedOncePerThread ==
    /\ sst.jcalls <= 1
    /\ sst.dcalls <= 1
    /\ sst.jcalls = 1 <=> sst.jpc = "done"
    /\ sst.dcalls = 1 <=> sst.dpc = "done"
    /\ (ev.op = "sst_donor_thread" /\ ev.res = "fatal") =>
          /\ ~NDEBUG
          /\ fatal = "assert snapshot"
          /\ sst.derr # "0"
          /\ sst.dlen # 0
          /\ sst.dcalls = 0

\* a joiner thread and a donor thread have both ended on a failure path,
\* each with its one call
C20_Witness ==
    /\ fatal = "no"
    /\ sst.jpc = "done" /\ sst.jerr # "0" /\ sst.jcalls = 1
    /\ sst.dpc = "done" /\ sst.derr = "-1" /\ sst.dlen # 0 /\ sst.dcalls = 1

\* C21: in the donor worker every successful node_store_acquire_state is
\* followed by exactly one node_store_release_state, whatever the sends
\* return, and node_store_release_state is never called when the thread
\* holds no snapshot (bypass, or node_store_acquire_state failed)
C21_SnapshotReleasedOnAllPaths ==
    /\ sst.drel <= sst.dacq
    /\ sst.dpc \in {"sent", "done"} => sst.drel = sst.dacq

\* C22: bypass SST: a donor called back with bypass acquires no snapshot
\* and sends the length 0 and nothing else; a joiner that has received the
\* length 0 leaves its Store as it is and calls sst_received with the
\* Store's GTID and the error code 0
C22_BypassSst ==
    [][/\ (ev'.op = "sst_donate_cb" /\ ev'.res = "WSREP_CB_SUCCESS" /\ sst'.dbypass)
             => (store' = store /\ sst'.dacq = 0 /\ sst'.dlen = 0)
       /\ (ev'.op = "sst_donor_thread" /\ sst.dbypass)
             => (sst'.dwire = <<cell(4, 0)>> /\ sst'.drel = 0 /\ store' = store)
       /\ (ev'.op = "sst_joiner_thread" /\ sst'.jlen = 0)
             => sst'.joiner = sst.joiner
       /\ (ev'.op = "sst_received" /\ sst.jlen = 0)
             => /\ sst'.joiner = sst.joiner
                /\ sst'.jcalls = 1
                /\ sst'.received = [gtid |-> sst.joiner.gtid, rcode |-> "0"]]_vars

\* a joiner that had a state installed has ended a bypass transfer, and a
\* donor called back with bypass has ended its thread
C22_Witness ==
    /\ sst.jpc = "done" /\ sst.jlen = 0
    /\ sst.joiner.gtid # WSREP_GTID_UNDEFINED
    /\ sst.received = [gtid |-> sst.joiner.gtid, rcode |-> "0"]
    /\ sst.dpc = "done" /\ sst.dbypass
    /\ sst.dwire = <<cell(4, 0)>> /\ sst.sent.rcode = "0"

\* the paths of the joiner thread and the sends of the donor thread that are
\* I/O failures
JoinerIoFailures == {"accept fails", "recv fails", "state recv fails"}
DonorIoFailures == {"length fails", "state fails"}

\* what C23 says of the error codes: an I/O failure is signalled with a
\* negative code through sst_received and sst_sent, a successful transfer
\* with the code 0
SignalledCodes ==
    /\ (sst.jpc = "done" /\ sst.jpath \in JoinerIoFailures)
          => (sst.jcalls = 1 /\ sst.received.rcode = "-1")
    /\ (sst.dpc = "done" /\ sst.dio \in DonorIoFailures)
          => (sst.dcalls = 1 /\ sst.sent.rcode = "-1")
    /\ (sst.jpc = "done" /\ sst.jpath = "bypass") => sst.received.rcode = "0"
    /\ (sst.jpc = "done" /\ sst.jpath = "state")
          => sst.received.rcode = (IF sst.jgtid = sst.joiner.gtid /\
                                      sst.jgtid # WSREP_GTID_UNDEFINED
                                   THEN "0" ELSE "-1")
    /\ (sst.dpc = "done" /\ sst.dio = "ok") => sst.sent.rcode = "0"
    /\ (sst.dpc \in {"send", "sent", "done"} /\ sst.dio \in DonorIoFailures)
          => ~(ev.op = "sst_donor_thread" /\ ev.res = "fatal")

\* C23 as stated: an I/O failure during SST (accept failure, short read,
\* short write) never aborts the process: the joiner signals it through
\* sst_received and the donor through sst_sent with a negative error code,
\* and a successful transfer is signalled with the error code 0
C23_IoFailureNeverAborts ==
    /\ SignalledCodes
    /\ sst.jpath \in JoinerIoFailures => ~(ev.op = "sst_received" /\ ev.res = "fatal")

\* C23 amended: an I/O failure during SST never aborts the process before
\* the provider is signalled: the joiner calls sst_received and the donor
\* sst_sent with a negative error code, and a successful transfer is
\* signalled with the error code 0; after its call the joiner aborts the
\* process when sst_received returns a status other than WSREP_OK, whatever
\* the error code was
C23_IoFailureSignalled ==
    /\ SignalledCodes
    /\ (sst.jpath \in JoinerIoFailures /\ sst.jpc \in {"accept", "end"})
          => ~(ev.op \in {"sst_joiner_thread", "sst_received"} /\ ev.res = "fatal")
    /\ (ev.op = "sst_received" /\ ev.res = "fatal")
          => (sst.jpc = "done" /\ sst.jcalls = 1 /\ sst.received.rcode = sst.jerr)

\* a joiner thread has ended after a short read and a donor thread after a
\* short write of the state, each with its negative code signalled
C23_Witness ==
    /\ fatal = "no"
    /\ sst.jpc = "done" /\ sst.jpath = "state recv fails"
    /\ sst.received.rcode = "-1"
    /\ sst.dpc = "done" /\ sst.dio = "state fails" /\ sst.sent.rcode = "-1"

(***************************************************************************)
(* Spec properties: the statuses of the commit order, brute-force aborts,  *)
(* skipped write-sets                                                      *)
(***************************************************************************)
\* C28: in node_trx_execute a status other than WSREP_OK returned by
\* commit_order_enter or by commit_order_leave ends the process: the node
\* does not run on after a commit_order_enter that did not admit the
\* write-set, nor after a commit_order_leave that failed
C28_CommitOrderFailureFatal ==
    /\ Len(master.entered) < Len(master.enter_calls) => fatal # "no"
    /\ (master.left # <<>> /\ provider.last_left < master.meta.seqno)
          => fatal # "no"

\* C29: when certify has returned WSREP_BF_ABORT, node_trx_execute rolls the
\* transaction back before it calls commit_order_enter; when the write-set
\* was ordered it then enters the commit order, advances the GTID with
\* node_store_update_gtid and leaves, and it does not roll back again
C29_BfAbortLifecycle ==
    /\ (master.cert = "WSREP_BF_ABORT" /\ master.pc \in {"enter", "ordered", "leave"})
          => (master.rollbacks = 1 /\ ws_handle.trx = NoTrx)
    /\ (master.cert = "WSREP_BF_ABORT" /\ master.pc = "enter")
          => master.enter_calls = <<>>
    /\ (Returned /\ master.cert = "WSREP_BF_ABORT") => master.rollbacks = 1
    /\ (Returned /\ master.cert = "WSREP_BF_ABORT" /\ master.meta.seqno > 0)
          => /\ master.entered = <<master.meta>>
             /\ master.left = <<master.meta>>
             /\ master.adv = 1
             /\ master.writes = 0

\* the write-set the slave has in hand is one to skip: node_trx_apply got
\* no buffer
Skipped == slave.app_err /\ slave.trx = Uninitialized

\* C30: for an ordered write-set that comes without a buffer or with
\* WSREP_FLAG_ROLLBACK the slave calls commit_order_enter and, admitted,
\* advances the Store GTID by exactly 1 to the write-set's GTID with
\* node_store_update_gtid, changes no record and calls commit_order_leave;
\* for a write-set with a buffer that node_store_apply accepted it calls
\* node_store_commit with the write-set's GTID instead
C30_SkippedWriteSet ==
    /\ slave.pc \in {"ordered", "leave"} => slave.entered = <<slave.meta>>
    /\ (Skipped /\ slave.pc \in {"enter", "ordered"})
          => (slave.adv = 0 /\ slave.writes = 0)
    /\ (Skipped /\ slave.pc = "leave")
          => /\ fatal = "no"
             /\ store.gtid = slave.meta
             /\ slave.adv = 1
             /\ slave.writes = 0
    /\ (Skipped /\ slave.pc = "idle")
          => /\ slave.left = <<slave.meta>>
             /\ slave.adv = 1
             /\ slave.writes = 0
    /\ (~slave.app_err /\ slave.pc = "leave" /\ fatal = "no")
          => /\ slave.trx = NoTrx
             /\ store.gtid = slave.meta
             /\ slave.adv = 1
    /\ (~slave.app_err /\ slave.pc = "idle" /\ slave.entered # <<>>)
          => slave.left = <<slave.meta>>

\* the slave has passed a skipped write-set through the commit order after
\* a write-set it had committed with a record written
C30_Witness ==
    /\ Skipped /\ slave.pc = "idle" /\ slave.left = <<slave.meta>>
    /\ slave.meta.seqno > 1
    /\ \E i \in DOMAIN store.records : store.records[i].version > 0
    /\ fatal = "no"

(***************************************************************************)
(* Properties of the process (SpecLife): the SYNCED latch, the master      *)
(* workers, the order of shutdown                                          *)
(***************************************************************************)
\* C24: the SYNCED latch only ever holds 0, 1 or -1; wsrep_synced_cb changes
\* it only from 0 to 1; node_wsrep_disconnect sets it to -1; once it is -1 no
\* later step, a synced callback included, changes it.
C24_SyncedLatch ==
    [][/\ node'.synced \in {0, 1, -1}
       /\ node'.step = "wsrep_synced_cb" =>
              node'.synced = (IF node.synced = 0 THEN 1 ELSE node.synced)
       /\ node'.step = "node_wsrep_disconnect" => node'.synced = -1
       /\ node'.synced # node.synced =>
              node'.step \in {"wsrep_synced_cb", "node_wsrep_disconnect"}
       /\ node.synced = -1 => node'.synced = -1]_vars

\* the synced callback has run after node_wsrep_disconnect set the latch
C24_Witness ==
    /\ node.synced = -1
    /\ node.step = "wsrep_synced_cb"
    /\ node.conn = "disconnected"

\* C25: a master worker is inside node_trx_execute only if the latch has been
\* 1 and the worker's last node_wsrep_wait_synced read 1; a worker whose
\* node_wsrep_wait_synced read -1 calls node_trx_execute no more: it has
\* returned.
C25_MastersGatedByLatch ==
    \A w \in 1..NMasters :
        /\ node.masters[w].pc \in {"trx", "loop"} =>
               (node.ever1 /\ node.masters[w].seen = 1)
        /\ node.masters[w].seen = -1 => node.masters[w].pc = "exited"

\* one master worker has read -1 and returned while another, which has not
\* read the latch since it was 1, is still inside node_trx_execute
C25_Witness ==
    \E v, w \in 1..NMasters :
        /\ node.masters[v].seen = -1
        /\ node.masters[v].pc = "exited"
        /\ node.masters[w].pc = "trx"
        /\ node.synced = -1

C26_MastersTerminate ==
    (node.synced = -1) ~> (MastersRunning = {} \/ fatal # "no")

(***************************************************************************)
(* Spec properties: the slave's failed commit order, the life of a         *)
(* transaction context, the read view of a local transaction               *)
(***************************************************************************)
\* C31: when commit_order_enter fails in node_trx_apply, the call returns
\* the failure status with the process alive, the context of the apply step
\* rolled back once, the Store's GTID and records as they were and no
\* commit_order_leave call.
C31_SlaveEnterFailure ==
    (slave.pc = "idle" /\ slave.enter_calls # <<>> /\ slave.entered = <<>>) =>
        /\ fatal = "no"
        /\ slave.ret # "WSREP_OK"
        /\ slave.rollbacks = 1
        /\ slave.trx = NoTrx
        /\ slave.adv = 0 /\ slave.writes = 0
        /\ slave.left = <<>>

\* C32: when node_trx_execute or node_trx_apply has returned, the context
\* the call allocated has been released (by commit or by rollback), and no
\* rollback was called on a call that had no context to release.
C32_ContextReleasedOnce ==
    /\ master.pc = "idle" => ws_handle.trx = NoTrx
    /\ slave.pc = "idle" => slave.trx \in {NoTrx, Uninitialized}
    /\ slave.rollbacks > 0 => ~slave.app_err
    /\ fatal \notin {"assert trx_id", "free of an uninitialized trx_id"}

\* C33: when a node_store_execute call of a local transaction reports that
\* the read view moved, node_trx_execute returns WSREP_TRX_FAIL in that same
\* step: no certify, no commit-order call, no commit or update_gtid, the
\* Store and the provider as they were, the context freed and the
\* write-set handle released.
C33_ReadViewMoved ==
    [][(master.pc = "execute" /\ master'.exec = "WSREP_TRX_FAIL") =>
          /\ master'.pc = "idle"
          /\ master'.ret = "WSREP_TRX_FAIL"
          /\ master'.cert = "WSREP_OK"
          /\ master'.enter_calls = <<>> /\ master'.left = <<>>
          /\ master'.adv = 0 /\ master'.writes = 0
          /\ store' = store
          /\ provider' = provider
          /\ ws_handle' = NewHandle
          /\ fatal' = "no"]_vars

\* the second operation of a transaction found the read view moved by a
\* write-set the slave committed after the first
C33_Witness ==
    /\ master.pc = "idle"
    /\ master.exec = "WSREP_TRX_FAIL"
    /\ master.ops_left = 1
    /\ store.gtid.seqno > 0
    /\ fatal = "no"

(***************************************************************************)
(* SpecLife properties: the loops of the master routine                    *)
(***************************************************************************)
\* C34: a master worker whose node_trx_execute returned WSREP_OK or
\* WSREP_TRX_FAIL calls it again; after WSREP_CONN_FAIL it goes back to
\* node_wsrep_wait_synced and calls node_trx_execute again only once that
\* has read the latch as 1; after any other status the worker returns.
C34_MasterLoop ==
    [][\A w \in 1..NMasters :
          LET m == node.masters[w]
              n == node'.masters[w]
          IN  /\ (m.pc = "loop" /\ n # m) =>
                    n.pc = (CASE m.ret \in {"WSREP_OK", "WSREP_TRX_FAIL"} -> "trx"
                              [] m.ret = "WSREP_CONN_FAIL" -> "wait_synced"
                              [] OTHER -> "exited")
              /\ (m.pc = "wait_synced" /\ n # m) =>
                    /\ n.pc = "trx" <=> node.synced = 1
                    /\ n.pc = "exited" <=> node.synced = -1
                    /\ n.seen = node.synced
              /\ (n.pc = "trx" /\ m.pc # "trx") =>
                    m.pc \in {"loop", "wait_synced"}]_vars

\* a master worker is inside node_trx_execute again after an earlier call
\* returned WSREP_CONN_FAIL and node_wsrep_wait_synced let it through
C34_Witness ==
    \E w \in 1..NMasters :
        /\ node.masters[w].ret = "WSREP_CONN_FAIL"
        /\ node.masters[w].pc = "trx"
        /\ node.masters[w].seen = 1

(***************************************************************************)
(* SpecSync properties: the rendezvous of an SST callback and its thread   *)
(***************************************************************************)
\* C35: an SST callback returns only after its thread has copied what it
\* needs from the callback's context and, for a donor without bypass, after
\* node_store_acquire_state has been called; the thread never reads the
\* context after the callback has returned; and once the thread has
\* signalled, the callback is not left waiting without a signal.
C35_SstRendezvous ==
    /\ sst.sync.ppc = "returned" =>
          /\ sst.sync.copied = "live"
          /\ (sst.sync.role = "DONOR" /\ ~sst.sync.bypass) => sst.sync.acquired
    /\ sst.sync.copied # "gone"
    /\ (sst.sync.cpc \in {"run", "done"} /\ sst.sync.ppc = "waiting") =>
          sst.sync.signalled

(***************************************************************************)
(* SpecSst properties: what the joiner thread reports to the provider      *)
(***************************************************************************)
\* the joiner thread has installed the state it received: its Store and its
\* state_gtid carry the GTID the state begins with; it has failed: its
\* Store's GTID is the one it had
JoinerInstalls(state, junk) ==
    LET r == node_store_init_state(sst.joiner, state, junk)
    IN  IF r.ret = 0
        THEN /\ sst'.jerr = "0"
             /\ sst'.joiner.gtid = wsrep_gtid_scan(state).gtid
             /\ sst'.jgtid = wsrep_gtid_scan(state).gtid
        ELSE /\ sst'.jerr = "-1"
             /\ sst'.joiner = sst.joiner

\* sst_received is called with the thread's state_gtid and err, and the
\* Store is as the thread left it
ReportsToProvider ==
    (ev'.op = "sst_received")
       => /\ sst'.received = [gtid |-> sst.jgtid, rcode |-> sst.jerr]
          /\ sst'.joiner = sst.joiner

\* C36: the joiner thread, after receiving the payload and calling
\* node_store_init_state, reads the GTID back from the Store and passes it
\* with the error code of the read/install path to sst_received: on success
\* the reported GTID is the installed snapshot's GTID (the Store's GTID
\* after a bypass); on a failed accept, read, allocation or install the
\* Store is not read: the error code is negative, the reported GTID is
\* WSREP_GTID_UNDEFINED and the Store's GTID is the one it had
C36_JoinerReportsGtid ==
    [][/\ (ev'.op = "sst_joiner_thread" /\ sst'.jpath = "state")
             => \A b \in Snapshots, j \in Junk :
                   sst_joiner_thread("state", b, j) => JoinerInstalls(b, j)
       /\ (ev'.op = "sst_joiner_thread" /\ sst'.jerr = "0")
             => sst'.jgtid = sst'.joiner.gtid
       /\ (ev'.op = "sst_joiner_thread" /\ sst'.jerr # "0")
             => /\ sst'.jerr \in {"-1", "ENOMEM"}
                /\ sst'.jgtid = WSREP_GTID_UNDEFINED
                /\ sst'.joiner.gtid = sst.joiner.gtid
       /\ ReportsToProvider]_vars

\* a joiner whose Store had a state installed has failed to receive or to
\* install another and has reported the undefined GTID with the error code
C36_Witness ==
    /\ sst.jpc = "done" /\ sst.jpath \in {"state", "state recv fails"}
    /\ sst.jerr = "-1"
    /\ sst.joiner.gtid # WSREP_GTID_UNDEFINED
    /\ sst.received = [gtid |-> WSREP_GTID_UNDEFINED, rcode |-> "-1"]

\* C36 as stated: on success the reported GTID is the installed snapshot's
\* GTID, and on a failed read or install the reported GTID is still the
\* Store's current GTID
C36_ReportsStoreGtid ==
    (sst.jpc = "done" /\ sst.jpath \in {"state", "state recv fails", "recv fails"})
       => /\ sst.received.gtid = sst.joiner.gtid
          /\ sst.received.rcode = sst.jerr

(***************************************************************************)
(* SpecLock properties: the Store lock and the calls made outside it       *)
(***************************************************************************)
\* C37: no thread owns the Store lock (store->gtid_mtx) while it calls a
\* provider operation (append_key, append_data, assign_read_view, certify,
\* commit_order_enter, commit_order_leave, release, sst_sent, sst_received)
\* or does socket I/O
C37_NoCallUnderStoreLock ==
    \A t \in StoreThreads :
        Statement(t).kind \in {"provider", "io"} => gtid_mtx.owner # t

\* the slave holds the Store lock in node_store_commit while the master
\* calls the provider from node_store_execute and the donor sends the
\* snapshot
C37_Witness ==
    /\ gtid_mtx.owner = "slave" /\ gtid_mtx.at["slave"] = "commit_body"
    /\ gtid_mtx.at["master"] = "append_key_from"
    /\ gtid_mtx.at["donor"] = "send_state"

(***************************************************************************)
(* Spec properties: the Store's GTID and the commit order                  *)
(***************************************************************************)
\* the worker is inside the commit monitor for its write-set:
\* commit_order_enter has returned WSREP_OK for it, every earlier write-set
\* has left, and commit_order_leave has not been called
InMonitor(w) ==
    /\ w.pc = "ordered"
    /\ w.entered = <<w.meta>>
    /\ w.left = <<>>
    /\ provider.last_left = w.meta.seqno - 1

\* C38: every change of the Store's GTID by node_trx_execute and
\* node_trx_apply (node_store_commit, node_store_update_gtid) is made by a
\* worker between the commit_order_enter that returned WSREP_OK for its
\* write-set and the commit_order_leave of that write-set, and sets the GTID
\* of that write-set; commit_order_leave is called only after it; so with a
\* master and a slave running concurrently and a provider that admits
\* write-sets in seqno order the process is never aborted for an
\* 'Out of order commit'
C38_GtidMovesInsideMonitor ==
    [][/\ (store'.gtid # store.gtid)
             => \/ InMonitor(master) /\ master'.pc = "leave" /\ slave' = slave
                                     /\ store'.gtid = master.meta
                \/ InMonitor(slave) /\ slave'.pc = "leave" /\ master' = master
                                    /\ store'.gtid = slave.meta
       /\ (Len(master'.left) > Len(master.left))
             => (master.pc = "leave" /\ store.gtid = master.meta)
       /\ (Len(slave'.left) > Len(slave.left))
             => (slave.pc = "leave" /\ store.gtid = slave.meta)
       /\ fatal' # "Out of order commit"]_vars

\* the slave has committed and left with seqno 1 while the master, certified
\* with seqno 2, was waiting to enter; the master has now committed inside
\* the monitor
C38_Witness ==
    /\ slave.left # <<>> /\ slave.meta.seqno = 1
    /\ master.pc = "leave" /\ master.meta.seqno = 2 /\ master.adv = 1
    /\ store.gtid.seqno = 2

(***************************************************************************)
(* SpecTwin properties: two nodes and one total order                      *)
(***************************************************************************)
\* the state of two Stores is the same: records, members, GTID, read-view
\* flag, and the read-view failures counted
SameState(a, b) ==
    /\ a.records = b.records
    /\ a.records_num = b.records_num
    /\ a.members = b.members
    /\ a.members_num = b.members_num
    /\ a.gtid = b.gtid
    /\ a.read_view_support = b.read_view_support
    /\ a.read_view_fails = b.read_view_fails

\* C39: determinism across nodes: two Stores that started in the same state
\* and have processed the same prefix of the total order of commits, GTID
\* updates and views are in the same state, have counted the same rejections
\* of the commit-time read-view verification and have aborted or not for the
\* same reason, whichever node each write-set came from
C39_Determinism ==
    (cluster.pos["local"] = cluster.pos["peer"])
       => (SameState(store, cluster.peer) /\ fatal = cluster.peer_fatal)

\* both nodes have processed a write-set of each node, and both have
\* rejected the second one at commit time
C39_Witness ==
    /\ cluster.pos["local"] = 2 /\ cluster.pos["peer"] = 2
    /\ cluster.log[1].kind = "commit" /\ cluster.log[2].kind = "commit"
    /\ cluster.log[1].origin # cluster.log[2].origin
    /\ store.read_view_fails = 1 /\ cluster.peer.read_view_fails = 1
    /\ fatal = "no" /\ cluster.peer_fatal = "no"

\* the fields of an operation that the write-set carries
OpFields(op) ==
    <<op.idx_from, op.idx_to, op.rec_from, op.rec_to, op.new_value>>

\* node_store_apply makes of the write-set ws the context trx
RoundTrip(trx, ws) ==
    LET a == node_store_apply(store, ws, TRUE)
    IN  /\ a.ret = "0" /\ a.fatal = "no"
        /\ a.trx.rv_gtid = trx.rv_gtid
        /\ Len(a.trx.ops) = Len(trx.ops)
        /\ \A k \in 1..Len(trx.ops) : OpFields(a.trx.ops[k]) = OpFields(trx.ops[k])
        /\ BufLen(ws) = STORE_GTID_SIZE + Len(trx.ops) * trx.ops[1].size

\* C40: write-set round trip: node_store_apply on the concatenation of the
\* data fragments node_store_execute appended for a local transaction of
\* k >= 1 operations (the read-view GTID, then the k serialized operations)
\* returns 0 with a context that has the same read-view GTID and the same k
\* operations in the same order (idx_from, idx_to, rec_from, rec_to,
\* new_value), and no byte of the buffer is left over
C40_WriteSetRoundTrip ==
    \A i \in 1..Len(cluster.log) :
        cluster.log[i].kind = "commit"
           => /\ Len(cluster.log[i].trx.ops) >= 1
              /\ RoundTrip(cluster.log[i].trx, cluster.log[i].ws)

\* a transaction of two operations of the node whose operations are padded
\* on the wire, executed after a commit, has been ordered
C40_Witness ==
    /\ Len(cluster.log) = 2
    /\ cluster.log[2].kind = "commit" /\ cluster.log[2].origin = "peer"
    /\ Len(cluster.log[2].trx.ops) = 2
    /\ cluster.log[2].trx.rv_gtid.seqno = 1
    /\ BufLen(cluster.log[2].ws) > STORE_GTID_SIZE + 2 * STORE_OP_SIZE
    /\ \E k \in 1..2 : cluster.log[2].trx.ops[k].rec_from.version = 1

=============================================================================
